---------------------------- MODULE Spec2Model ----------------------------
(***************************************************************************)
(* Bounce Runner: the client frame loop (BounceRunner component and        *)
(* gameLogic), the procedural track generators (client generatePlatform,   *)
(* server TrackGenerator) and the server session registry.                 *)
(*                                                                         *)
(* Numbers are fixed point.  The source computes with doubles:             *)
(*   time      1 unit = 1/TScale frame of the 60 fps baseline (25/3 ms)    *)
(*   velocity  1 unit = 1/VScale px per frame                              *)
(*   length    1 unit = 1/LScale px, LScale = VScale * TScale, so that     *)
(*             velocity * time is a length with no rounding                *)
(*   random    Math.random() = r / RandScale, r \in 0 .. RandScale - 1     *)
(*   difficulty multipliers are in 1/DiffScale                             *)
(***************************************************************************)
EXTENDS Integers, Sequences, FiniteSets, TLC

---------------------------------------------------------------------------
(* Units *)

TARGET_FPS == 60
\* time units per second: two per frame of the 60 fps baseline
TicksPerSecond == 2 * TARGET_FPS
TScale == TicksPerSecond \div TARGET_FPS
VScale == 10 * TScale
LScale == VScale * TScale
RandScale == 5 * 4
DiffScale == 10 * 10

Px(n) == n * LScale
\* milliseconds to time units (exact for multiples of 25 ms)
Ms(n) == (n * TicksPerSecond) \div 1000

Max(a, b) == IF a > b THEN a ELSE b
Min(a, b) == IF a < b THEN a ELSE b
Abs(a) == IF a < 0 THEN -a ELSE a

---------------------------------------------------------------------------
(* Program constants (constants.ts), in the units above *)

GRAVITY == 16                \* 0.8 px/frame per frame
JUMP_FORCE == -280           \* -14 px/frame
DOUBLE_JUMP_FORCE == -240    \* -12 px/frame
JUMP_ADDITIONAL_FORCE == -6  \* -0.3 px/frame per frame
MAX_JUMP_FRAMES == 16        \* 8 frames
MAX_JUMPS == 2
DASH_COOLDOWN == 120         \* 60 frames
INITIAL_SPEED == 240         \* 12 px/frame
MAX_SPEED == 1000            \* 50 px/frame
SPEED_INCREMENT == 0
CANVAS_WIDTH == 1280
CANVAS_HEIGHT == 720
PLAYER_WIDTH == 40
PLAYER_HEIGHT == 40
PLAYER_X_OFFSET == 250
PLATFORM_MIN_WIDTH == 150
PLATFORM_MAX_WIDTH == 450
PLATFORM_BUFFER_COUNT == 10
GAP_MIN_MULTIPLIER == 12
GAP_MAX_MULTIPLIER == 26

\* PLATFORM_TYPES[type].scoreBonus
PlatformTypes == {"default", "green", "rare", "hazard"}
scoreBonus(type) ==
  CASE type = "green" -> 50
    [] type = "rare" -> 100
    [] type = "hazard" -> -50
    [] OTHER -> 0

\* local constants of updatePlayer, checkItemCollisions and the loop
maxFallSpeed == 300          \* 15 px/frame
landingSlack == 8
platformInset == 10
itemSize == 20
itemScore == 50
comboWindow == 1500
comboUnitBonus == 10
dashDuration == 150
staleAfter == 5000
sendInterval == 50
maxDeltaTime == 50

---------------------------------------------------------------------------
(* gameLogic: physics *)

getSpeedMultiplier == 1

\* a variant of the tolerance below: the fixed slack alone
fixedTolerance(vy, timeFactor) == Px(landingSlack)

\* how far below a platform's top the previous bottom edge may have been
velocityTolerance(vy, timeFactor) == Abs(vy) * timeFactor + Px(landingSlack)

\* a variant of the clamp below: no cap on the fall speed
noClamp(vy) == vy

\* the fall speed is capped at maxFallSpeed
clampFall(vy) == IF vy > maxFallSpeed THEN maxFallSpeed ELSE vy

\* a variant of landingIndex below: the loop goes on after a landing, and the
\* last platform that qualifies is the one landed on
landingIndexLast(player, platforms, x1, y1, vy, timeFactor) ==
  LET prevBottom == player.y + Px(PLAYER_HEIGHT)
      lands(i) ==
        /\ vy >= 0
        /\ x1 + Px(PLAYER_WIDTH) > platforms[i].x + Px(platformInset)
        /\ x1 < platforms[i].x + platforms[i].width - Px(platformInset)
        /\ y1 + Px(PLAYER_HEIGHT) >= platforms[i].y
        /\ prevBottom <= platforms[i].y + velocityTolerance(vy, timeFactor)
      hits == {i \in 1..Len(platforms) : lands(i)}
  IN IF hits = {} THEN 0 ELSE CHOOSE i \in hits : \A j \in hits : j <= i

\* a variant of landingIndex below: only a runner in the air lands
landingIndexFromAir(player, platforms, x1, y1, vy, timeFactor) ==
  LET prevBottom == player.y + Px(PLAYER_HEIGHT)
      lands(i) ==
        /\ vy >= 0
        /\ x1 + Px(PLAYER_WIDTH) > platforms[i].x + Px(platformInset)
        /\ x1 < platforms[i].x + platforms[i].width - Px(platformInset)
        /\ y1 + Px(PLAYER_HEIGHT) >= platforms[i].y
        /\ prevBottom <= platforms[i].y + velocityTolerance(vy, timeFactor)
        /\ ~player.isGrounded
      hits == {i \in 1..Len(platforms) : lands(i)}
  IN IF hits = {} THEN 0 ELSE CHOOSE i \in hits : \A j \in hits : i <= j

\* the index of the first platform the runner lands on, 0 when none
landingIndex(player, platforms, x1, y1, vy, timeFactor) ==
  LET prevBottom == player.y + Px(PLAYER_HEIGHT)
      lands(i) ==
        /\ vy >= 0
        /\ x1 + Px(PLAYER_WIDTH) > platforms[i].x + Px(platformInset)
        /\ x1 < platforms[i].x + platforms[i].width - Px(platformInset)
        /\ y1 + Px(PLAYER_HEIGHT) >= platforms[i].y
        /\ prevBottom <= platforms[i].y + velocityTolerance(vy, timeFactor)
      hits == {i \in 1..Len(platforms) : lands(i)}
  IN IF hits = {} THEN 0 ELSE CHOOSE i \in hits : \A j \in hits : i <= j

\* updatePlayer(player, platforms, baseSpeed, speedMultiplier, isHoldingJump,
\* timeFactor); dateNow is the value Date.now() returns during the call.
\* Returns [updatedPlayer, landedPlatform (an index into platforms, 0 = null)].
updatePlayer(player, platforms, baseSpeed, speedMultiplier, isHoldingJump, timeFactor, dateNow) ==
  LET currentSpeed == baseSpeed * speedMultiplier
      dashCooldown == IF player.dashCooldown > 0
                        THEN player.dashCooldown - timeFactor
                        ELSE player.dashCooldown
      holding == isHoldingJump /\ player.jumpHoldTimer > 0
      vyHold == IF holding
                  THEN player.vy + (JUMP_ADDITIONAL_FORCE * timeFactor) \div TScale
                  ELSE player.vy
      jumpHoldTimer == IF holding THEN player.jumpHoldTimer - timeFactor ELSE 0
      vyGrav == vyHold + (GRAVITY * timeFactor) \div TScale
      vy == clampFall(vyGrav)
      y1 == player.y + vy * timeFactor
      x1 == player.x + currentSpeed * timeFactor
      moved == [player EXCEPT !.dashCooldown = dashCooldown,
                              !.jumpHoldTimer = jumpHoldTimer,
                              !.vy = vy, !.y = y1, !.x = x1,
                              !.isGrounded = FALSE]
      k == landingIndex(player, platforms, x1, y1, vy, timeFactor)
  IN IF k = 0
       THEN [updatedPlayer |-> moved, landedPlatform |-> 0]
       ELSE [updatedPlayer |->
               [moved EXCEPT !.y = platforms[k].y - Px(PLAYER_HEIGHT),
                             !.vy = 0,
                             !.isGrounded = TRUE,
                             !.isJumping = FALSE,
                             !.jumpHoldTimer = 0,
                             !.jumpCount = 0,
                             !.canDoubleJump = TRUE,
                             !.lastLandTime = dateNow],
             landedPlatform |-> k]

\* checkItemCollisions(player, platforms): marks the items hit as collected (in
\* place, in the source) and returns one bonus event per coin hit.
itemHit(player, item) ==
  /\ player.x + Px(PLAYER_WIDTH) > item.x
  /\ player.x < item.x + Px(itemSize)
  /\ player.y + Px(PLAYER_HEIGHT) > item.y
  /\ player.y < item.y + Px(itemSize)

\* a variant of the test below: an overlapped item counts, collected or not
itemEventAgain(p, item) == itemHit(p, item)

\* the test of the forEach body: an item not yet collected that the runner overlaps
itemEvent(player, item) == ~item.collected /\ itemHit(player, item)

collectItem(player, item) ==
  IF itemEvent(player, item) THEN [item EXCEPT !.collected = TRUE] ELSE item

checkItemCollisions(player, platforms) ==
  LET hitsOf(i) == {j \in 1..Len(platforms[i].items) : itemEvent(player, platforms[i].items[j])}
      touched == {i \in 1..Len(platforms) : hitsOf(i) # {}}
      coins(i) == {j \in hitsOf(i) : platforms[i].items[j].type = "coin"}
      after == [i \in 1..Len(platforms) |->
                  IF i \in touched
                    THEN [platforms[i] EXCEPT !.items =
                            [j \in 1..Len(platforms[i].items) |->
                               collectItem(player, platforms[i].items[j])]]
                    ELSE platforms[i]]
      RECURSIVE count(_)
      count(S) == IF S = {} THEN 0
                  ELSE LET i == CHOOSE i \in S : TRUE
                       IN Cardinality(coins(i)) + count(S \ {i})
  IN IF touched = {} THEN [platforms |-> platforms, events |-> 0]
     ELSE [platforms |-> after, events |-> count(touched)]

---------------------------------------------------------------------------
(* gameLogic: procedural generation *)

\* generatePlatform(prevPlatform, difficultyMultiplier) with a previous
\* platform; rs holds the values the successive Math.random() calls return.
\* Returns the platform and the number of values drawn.
generatePlatform(prevPlatform, difficultyMultiplier, rs) ==
  LET minGap == (INITIAL_SPEED * TScale * GAP_MIN_MULTIPLIER * difficultyMultiplier) \div DiffScale
      maxGap == (INITIAL_SPEED * TScale * GAP_MAX_MULTIPLIER * difficultyMultiplier) \div DiffScale
      gap == (rs[1] * (maxGap - minGap)) \div RandScale + minGap
      x == prevPlatform.x + prevPlatform.width + gap
      rawWidth == (rs[2] * Px(PLATFORM_MAX_WIDTH - PLATFORM_MIN_WIDTH)) \div RandScale + Px(PLATFORM_MIN_WIDTH)
      \* width * (1.2 - difficultyMultiplier * 0.2)
      width == Max(Px(PLATFORM_MIN_WIDTH), (rawWidth * (6 * DiffScale - difficultyMultiplier)) \div (5 * DiffScale))
      maxJumpHeight == 220
      reachableHeightChange == (Px(maxJumpHeight) * 7) \div 10
      minY == Px(200)
      maxY == Px(CANVAS_HEIGHT - 100)
      y0 == prevPlatform.y + ((rs[3] * reachableHeightChange * 2) \div RandScale - reachableHeightChange)
      low == y0 < minY
      y1 == IF low THEN minY + (rs[4] * Px(100)) \div RandScale ELSE y0
      n1 == IF low THEN 4 ELSE 3
      high == y1 > maxY
      y == IF high THEN maxY - (rs[n1 + 1] * Px(100)) \div RandScale ELSE y1
      n2 == IF high THEN n1 + 1 ELSE n1
      roll == rs[n2 + 1]
      type == IF roll * 100 < 5 * RandScale THEN "hazard"
              ELSE IF roll * 100 < 10 * RandScale THEN "rare"
              ELSE IF roll * 100 < 20 * RandScale THEN "green"
              ELSE "default"
      tryItem == type # "hazard"
      hasItem == tryItem /\ rs[n2 + 2] * 10 < 4 * RandScale
      \* one draw for the item test, one for the item's id, one for the platform's id
      n3 == n2 + 1 + (IF tryItem THEN 1 ELSE 0) + (IF hasItem THEN 1 ELSE 0) + 1
      items == IF hasItem
                 THEN << [x |-> x + width \div 2 - Px(10), y |-> y - Px(30),
                          type |-> "coin", collected |-> FALSE] >>
                 ELSE << >>
  IN [platform |-> [x |-> x, y |-> y, width |-> width, type |-> type, items |-> items],
      drawn |-> n3]

---------------------------------------------------------------------------
(* Math.random(): a seeded stream, so that a run is reproducible *)

NextRng(s) == (21 * s + 37) % (5 * RandScale)
RandOf(s) == s \div 5

RECURSIVE AdvanceRng(_, _)
AdvanceRng(s, n) == IF n = 0 THEN s ELSE AdvanceRng(NextRng(s), n - 1)

\* the values of the next Math.random() calls (one generated platform or
\* segment draws at most 8)
Draws(s) == [i \in 1..8 |-> RandOf(AdvanceRng(s, i))]

---------------------------------------------------------------------------
(* server: TrackGenerator.  Positions in 1/LScale px, as on the client. *)

MIN_GAP == 150
MAX_GAP == 350
MIN_WIDTH == 200
MAX_WIDTH == 600

NoObstacle == [kind |-> "none", x |-> 0, y |-> 0, width |-> 0, height |-> 0, offset |-> 0]

\* lastSegment as the constructor leaves it
startSegment ==
  [startX |-> -Px(50), width |-> Px(1500), height |-> Px(600), type |-> "plain",
   obstacle |-> NoObstacle, mysteryType |-> "none"]

ObstacleTypes == <<"static", "lowCeiling", "moving", "laser">>

\* generateObstacle(platformX, platformW, platformY); rs: the next random draws
generateObstacle(platformX, platformW, platformY, rs) ==
  LET kind == ObstacleTypes[(rs[1] * Len(ObstacleTypes)) \div RandScale + 1]
      obsWidth == Px(40)
      obsHeight == Px(40)
      relativeX == Px(50) + (rs[2] * (platformW - Px(100))) \div RandScale
      x == platformX + relativeX
      y == IF kind = "lowCeiling" THEN platformY - Px(150) ELSE platformY - obsHeight
      offset == IF kind = "laser" THEN (rs[3] * 100) \div RandScale ELSE 0
  IN [obstacle |-> [kind |-> kind, x |-> x, y |-> y, width |-> obsWidth,
                    height |-> obsHeight, offset |-> offset],
      drawn |-> IF kind = "laser" THEN 3 ELSE 2]

\* generatePlatformAt(startX)
generatePlatformAt(startX, rs) ==
  LET width == Px(MIN_WIDTH) + (rs[1] * Px(MAX_WIDTH - MIN_WIDTH)) \div RandScale
      height == Px(620)
      roll == rs[2]
      mystery == roll * 10 < 1 * RandScale
      withObstacle == ~mystery /\ roll * 10 < 4 * RandScale
      mRoll == rs[3]
      mysteryType == IF ~mystery THEN "none"
                     ELSE IF mRoll * 10 < 4 * RandScale THEN "credit"
                     ELSE IF mRoll * 10 < 7 * RandScale THEN "speedBoost"
                     ELSE "fakeSafe"
      o == generateObstacle(startX, width, height, SubSeq(rs, 3, Len(rs)))
  IN [segment |-> [startX |-> startX, width |-> width, height |-> height,
                   type |-> IF mystery THEN "mystery" ELSE IF withObstacle THEN "obstacle" ELSE "plain",
                   obstacle |-> IF withObstacle THEN o.obstacle ELSE NoObstacle,
                   mysteryType |-> mysteryType],
      drawn |-> IF mystery THEN 3 ELSE IF withObstacle THEN 2 + o.drawn ELSE 2]

\* a variant of generateGap below: the gap is measured from the start of the
\* last segment
generateGapFromStart(lastSegment, difficultyMultiplier, rs) ==
  LET gapSize == Px(MIN_GAP) + (rs[1] * Px(MAX_GAP - MIN_GAP) * difficultyMultiplier) \div (RandScale * DiffScale)
      startX == lastSegment.startX + gapSize
      g == generatePlatformAt(startX, Tail(rs))
  IN [segment |-> g.segment, drawn |-> g.drawn + 1]

\* generateGap(): the platform after a gap that grows with the difficulty
generateGap(lastSegment, difficultyMultiplier, rs) ==
  LET gapSize == Px(MIN_GAP) + (rs[1] * Px(MAX_GAP - MIN_GAP) * difficultyMultiplier) \div (RandScale * DiffScale)
      startX == lastSegment.startX + lastSegment.width + gapSize
      g == generatePlatformAt(startX, Tail(rs))
  IN [segment |-> g.segment, drawn |-> g.drawn + 1]

\* generateNextSegment(difficulty): isGap is drawn, and both branches end in
\* generateGap; the segment returned is the new lastSegment
generateNextSegment(lastSegment, difficulty, rs) ==
  LET isGap == rs[1] * 10 < 3 * RandScale
      g == generateGap(lastSegment, difficulty, Tail(rs))
  IN [segment |-> g.segment, drawn |-> g.drawn + 1]

---------------------------------------------------------------------------
(* Bounds of the model *)

MaxTime == 97         \* the clock stops here (16 frames of 50 ms)
MaxRuns == 1          \* calls of initGame
MaxIdleFrames == 1    \* animation frames while no run is on
MaxJumpDowns == 3     \* jump presses
NumSeeds == 1         \* seeds of the random stream
ComboTime == 360      \* the clock of a run with a suspended tab stops here
MaxComboJumps == 2    \* jump presses in a run with a suspended tab
SuspendTime == 200    \* a frame delayed by more than the combo window
CourseTime == 366     \* the clock of a run over the course stops here
MaxCourseJumps == 1   \* jump presses in a run over the course
DashTime == 134       \* the clock of a run with dashes stops here
MaxDashes == 1        \* dash presses
FallTime == 300       \* the clock of the runs that end with a fall
EdgeTime == 330       \* the clock of a run off the edge of the start platform stops here
MaxEdgeJumps == 3     \* jump presses in that run
TrackTime == 800      \* the clock of a run from platform to platform stops here
MaxTrackJumps == 14   \* jump presses in that run
MaxFallRuns == 2      \* calls of initGame in those runs
RedoTime == 49        \* the clock of a run with a restart stops here
MaxRedoRuns == 2      \* calls of initGame in a run with a restart
MaxRedoDashes == 2    \* dashes that start in a run with a restart
MaxFallJumps == 1     \* jump presses in those runs
SaveTime == 660       \* the clock of two runs that end with a fall stops here
MaxSaveJumps == 1     \* jump presses in the two runs
NetTime == 660        \* the clock of a NetworkManager session stops here

\* the first seed lays a coin on a platform that one jump reaches
Seeds == {46 + 7 * i : i \in 0..(NumSeeds - 1)}

---------------------------------------------------------------------------
(* State *)

VARIABLES
  player,            \* gameState.current.player
  platforms,         \* gameState.current.platforms
  gs,                \* the other fields of gameState.current
  status,            \* React state: GameStatus
  boundStatus,       \* status as captured by the registered input listeners
  highScore,         \* React state: highScore
  loopHighScore,     \* highScore as captured by the closure of loop
  backgroundEnabled, \* React state: backgroundEnabled
  backgroundQuality, \* performanceManager.settings.backgroundQuality
  saved,             \* localStorage: the persisted high score
  now,               \* the clock (performance.now(), Date.now())
  timers,            \* expiry times of the pending dash setTimeout callbacks
  rng,               \* state of Math.random()
  runs,              \* number of initGame calls so far
  presses,           \* number of handleJumpStart calls so far
  dashes,            \* number of dashes started so far
  idle,              \* number of frames that found no run
  sessions,          \* SessionManager.sessions, in insertion order
  playerSessionMap,  \* SessionManager.playerSessionMap
  tracks,            \* GameLoop: generator and segments of each session
  emitted,           \* what the last server handler emitted
  srv,               \* server: uuid counter, socket counter, random stream
  phys,              \* one application of updatePlayer to a drawn state
  gen,               \* one chain of generated platforms / segments
  net                \* the NetworkManager singleton

clientVars == <<player, platforms, gs, status, boundStatus, highScore, loopHighScore, backgroundEnabled, backgroundQuality, saved, now, timers, rng, runs, presses, dashes, idle>>

serverVars == <<sessions, playerSessionMap, tracks, emitted, srv>>

vars == <<clientVars, serverVars, phys, gen, net>>

\* units of score: distanceScore = player.x / 100
ScoreScale == 100 * LScale

startPlatform ==
  [x |-> -Px(50), y |-> Px(CANVAS_HEIGHT - 100), width |-> Px(1500), type |-> "default", items |-> << >>]

freshPlayer ==
  [x |-> 0, y |-> startPlatform.y - Px(PLAYER_HEIGHT), vx |-> 0, vy |-> 0,
   isJumping |-> FALSE, isGrounded |-> TRUE, jumpCount |-> 0, jumpHoldTimer |-> 0,
   canDoubleJump |-> TRUE, isDashing |-> FALSE, dashCooldown |-> 0,
   comboCount |-> 0, lastLandTime |-> 0]

\* the player of the initial useRef value; the fields it lacks are not read
\* before initGame replaces it
mountPlayer == [freshPlayer EXCEPT !.y = Px(CANVAS_HEIGHT - 100)]

\* the component after mount and its effects: the load effect found
\* savedScore in storage; bgOn: the background quality is not 'off'
\* networkManager as the module creates it; selfId "" is null, session is
\* the last snapshot handed to onSessionUpdate. lastSendMs is 0 in the
\* source, where Date.now() is far above 50: the first send passes
NoNet ==
  [selfId |-> "", channel |-> FALSE, players |-> {}, lastSendMs |-> -Ms(sendInterval),
   name |-> "", session |-> [emitted |-> FALSE, players |-> {}]]

Mounted(savedScore, bgOn) ==
  /\ player = mountPlayer
  /\ platforms = << >>
  /\ now = 1
  /\ gs = [baseSpeed |-> INITIAL_SPEED, cameraX |-> 0, score |-> 0, bonusScore |-> 0,
           coinsCollected |-> 0, isRunning |-> FALSE, isHoldingJump |-> FALSE,
           lastUpdateTime |-> 1]
  /\ status = "MENU"
  /\ boundStatus = "MENU"
  /\ saved = savedScore
  /\ highScore = savedScore
  /\ backgroundEnabled = bgOn
  /\ backgroundQuality = IF bgOn THEN "high" ELSE "off"
  \* loop is created in the first render (highScore 0) and again when
  \* backgroundEnabled changes, after the load effect set highScore
  /\ loopHighScore = IF bgOn THEN 0 ELSE savedScore
  /\ timers = {}
  /\ rng \in Seeds
  /\ runs = 0
  /\ presses = 0
  /\ dashes = 0
  /\ idle = 0
  /\ net = NoNet

RECURSIVE bufferPlatforms(_, _, _)
bufferPlatforms(plats, s, n) ==
  IF n = 0 THEN [platforms |-> plats, rng |-> s]
  ELSE LET g == generatePlatform(plats[Len(plats)], DiffScale, Draws(s))
       IN bufferPlatforms(Append(plats, g.platform), AdvanceRng(s, g.drawn), n - 1)

initGame ==
  /\ runs' = runs + 1
  /\ LET b == bufferPlatforms(<<startPlatform>>, rng, PLATFORM_BUFFER_COUNT)
     IN /\ platforms' = b.platforms
        /\ rng' = b.rng
  /\ player' = freshPlayer
  /\ gs' = [baseSpeed |-> INITIAL_SPEED, cameraX |-> -Px(PLAYER_X_OFFSET), score |-> 0,
            bonusScore |-> 0, coinsCollected |-> 0, isRunning |-> TRUE,
            isHoldingJump |-> FALSE, lastUpdateTime |-> now]
  /\ status' = "PLAYING"
  /\ UNCHANGED <<boundStatus, highScore, loopHighScore, backgroundEnabled, backgroundQuality, saved, now, timers, presses, dashes, idle>>
  /\ UNCHANGED <<serverVars, phys, gen, net>>

\* the listener effect runs again after a render with a new status
rebindListeners ==
  /\ boundStatus # status
  /\ boundStatus' = status
  /\ UNCHANGED <<player, platforms, gs, status, highScore, loopHighScore, backgroundEnabled, backgroundQuality, saved, now, timers, rng, runs, presses, dashes, idle>>
  /\ UNCHANGED <<serverVars, phys, gen, net>>

\* a variant of jumpStartPlayer below: every press in the air gives a jump
jumpStartPlayerAnyTime(p) ==
  IF p.isGrounded
    THEN [p EXCEPT !.vy = JUMP_FORCE, !.isGrounded = FALSE, !.isJumping = TRUE,
                   !.jumpHoldTimer = MAX_JUMP_FRAMES, !.jumpCount = 1, !.canDoubleJump = TRUE]
  ELSE IF ~p.isGrounded
    THEN [p EXCEPT !.vy = DOUBLE_JUMP_FORCE, !.isJumping = TRUE,
                   !.jumpHoldTimer = MAX_JUMP_FRAMES, !.jumpCount = 2, !.canDoubleJump = FALSE]
  ELSE p

jumpStartPlayer(p) ==
  IF p.isGrounded
    THEN [p EXCEPT !.vy = JUMP_FORCE, !.isGrounded = FALSE, !.isJumping = TRUE,
                   !.jumpHoldTimer = MAX_JUMP_FRAMES, !.jumpCount = 1, !.canDoubleJump = TRUE]
  ELSE IF ~p.isGrounded /\ p.canDoubleJump /\ p.jumpCount < MAX_JUMPS
    THEN [p EXCEPT !.vy = DOUBLE_JUMP_FORCE, !.isJumping = TRUE,
                   !.jumpHoldTimer = MAX_JUMP_FRAMES, !.jumpCount = 2, !.canDoubleJump = FALSE]
  ELSE p

handleJumpStart ==
  /\ gs' = [gs EXCEPT !.isHoldingJump = TRUE]
  /\ player' = IF gs.isRunning THEN jumpStartPlayer(player) ELSE player
  /\ presses' = presses + 1
  /\ UNCHANGED <<platforms, status, boundStatus, highScore, loopHighScore, backgroundEnabled, backgroundQuality, saved, now, timers, rng, runs, dashes, idle>>
  /\ UNCHANGED <<serverVars, phys, gen, net>>

handleJumpEnd ==
  /\ gs' = [gs EXCEPT !.isHoldingJump = FALSE]
  /\ UNCHANGED <<player, platforms, status, boundStatus, highScore, loopHighScore, backgroundEnabled, backgroundQuality, saved, now, timers, rng, runs, presses, dashes, idle>>
  /\ UNCHANGED <<serverVars, phys, gen, net>>

\* a variant of the test below: a dash is granted whenever a run is on
dashAlways(running, p) == running

dashAccepted(running, p) == running /\ ~(p.dashCooldown > 0)

handleDash ==
  /\ IF dashAccepted(gs.isRunning, player)
       THEN /\ player' = [player EXCEPT !.isDashing = TRUE, !.dashCooldown = DASH_COOLDOWN]
            /\ timers' = timers \cup {now + Ms(dashDuration)}
            /\ dashes' = dashes + 1
       ELSE UNCHANGED <<player, timers, dashes>>
  /\ UNCHANGED <<platforms, gs, status, boundStatus, highScore, loopHighScore, backgroundEnabled, backgroundQuality, saved, now, rng, runs, presses, idle>>
  /\ UNCHANGED <<serverVars, phys, gen, net>>

\* the setTimeout callback of handleDash
dashTimeout ==
  \E t \in timers :
    /\ t <= now
    /\ timers' = timers \ {t}
    /\ player' = [player EXCEPT !.isDashing = FALSE]
    /\ UNCHANGED <<platforms, gs, status, boundStatus, highScore, loopHighScore, backgroundEnabled, backgroundQuality, saved, now, rng, runs, presses, dashes, idle>>
    /\ UNCHANGED <<serverVars, phys, gen, net>>

\* keydown of Space / ArrowUp in the menu or after game over, and the
\* overlay's start and restart buttons
startGame == boundStatus \in {"MENU", "GAME_OVER"} /\ runs < MaxRuns /\ initGame

\* keydown of Space / ArrowUp, mousedown, touchstart while playing
jumpDown == boundStatus = "PLAYING" /\ handleJumpStart

\* keyup of Space / ArrowUp, mouseup, touchend
jumpUp == handleJumpEnd

\* keydown of Shift / ArrowRight; MaxDashes bounds the dashes that start
dashDown ==
  /\ boundStatus = "PLAYING"
  /\ dashes < MaxDashes \/ player.dashCooldown > 0 \/ ~gs.isRunning
  /\ handleDash

\* the runner stands on this platform
standsOn(p, plat) ==
  /\ p.isGrounded
  /\ p.y + Px(PLAYER_HEIGHT) = plat.y
  /\ p.x + Px(PLAYER_WIDTH) > plat.x + Px(platformInset)
  /\ p.x < plat.x + plat.width - Px(platformInset)

\* the moments a player picks for a press: the last frame before the end of
\* the platform the runner stands on, and the top of a first jump
atEdge ==
  \E i \in 1..Len(platforms) :
    /\ standsOn(player, platforms[i])
    /\ player.x + INITIAL_SPEED * Ms(maxDeltaTime) >= platforms[i].x + platforms[i].width - Px(platformInset)

atTop == ~player.isGrounded /\ player.jumpCount = 1 /\ player.vy >= 0

\* "Land Sound & Combo": the combo count after a landing frame; dateNow is
\* Date.now() at this point of the frame, after updatePlayer set lastLandTime
comboAfter(p, dateNow) ==
  LET timeSinceLastLand == dateNow - p.lastLandTime
  IN IF timeSinceLastLand < Ms(comboWindow) /\ p.lastLandTime > 0
       THEN p.comboCount + 1
       ELSE 1

\* "Platform Gen": one more platform when the rightmost is near, then the filter
platformGen(plats, cameraX, baseSpeed, s) ==
  LET rightMost == plats[Len(plats)]
      near == rightMost.x < cameraX + Px(CANVAS_WIDTH + 800)
      diff == Min((baseSpeed * DiffScale) \div INITIAL_SPEED, 2 * DiffScale)
      g == generatePlatform(rightMost, diff, Draws(s))
      grown == IF near THEN Append(plats, g.platform) ELSE plats
      keep(q) == q.x + q.width > cameraX - Px(1000)
  IN [platforms |-> SelectSeq(grown, keep),
      rng |-> IF near THEN AdvanceRng(s, g.drawn) ELSE s]

\* a variant of the bonus below: every frame that ends on a platform earns it
platformBonusWhileOn(landing, plats, landedPlatform) ==
  IF landedPlatform # 0 THEN scoreBonus(plats[landedPlatform].type) ELSE 0

\* "if (landedPlatform)" within "Land Sound & Combo": what the type of the
\* platform landed on adds to bonusScore in a landing frame
platformBonus(landing, plats, landedPlatform) ==
  IF landing /\ landedPlatform # 0 THEN scoreBonus(plats[landedPlatform].type) ELSE 0

\* the score of a frame: distanceScore + state.bonusScore, in 1/ScoreScale
frameScore(p, bonusScore) == p.x + bonusScore * ScoreScale

\* a variant of the cap below: the time elapsed, however long
uncapped(elapsed) == elapsed

\* deltaTime = Math.min(currentTime - state.lastUpdateTime, 50)
capDelta(elapsed) == Min(elapsed, Ms(maxDeltaTime))

\* loop(currentTime): one animation frame, dt after the previous one
loop(dt) ==
  LET currentTime == now + dt
      deltaTime == capDelta(currentTime - gs.lastUpdateTime)
      timeFactor == deltaTime
      second == (currentTime \div TicksPerSecond) # ((currentTime - deltaTime) \div TicksPerSecond)
      rerender == second /\ backgroundQuality = "off" /\ backgroundEnabled
      baseSpeed == IF gs.baseSpeed < MAX_SPEED
                     THEN gs.baseSpeed + (SPEED_INCREMENT * timeFactor) \div TScale
                     ELSE gs.baseSpeed
      up == updatePlayer(player, platforms, baseSpeed, getSpeedMultiplier, gs.isHoldingJump, timeFactor, currentTime)
      p1 == up.updatedPlayer
      score == frameScore(p1, gs.bonusScore)
      coll == checkItemCollisions(p1, platforms)
      landing == ~player.isGrounded /\ p1.isGrounded
      combo == comboAfter(p1, currentTime)
      comboBonus == IF landing /\ combo > 1 THEN combo * comboUnitBonus ELSE 0
      typeBonus == platformBonus(landing, platforms, up.landedPlatform)
      p2 == IF landing THEN [p1 EXCEPT !.comboCount = combo] ELSE p1
      bonusScore == gs.bonusScore + itemScore * coll.events + comboBonus + typeBonus
      cameraX == p2.x - Px(PLAYER_X_OFFSET)
      pg == platformGen(coll.platforms, cameraX, baseSpeed, rng)
      gameOver == p2.y > Px(CANVAS_HEIGHT)
      \* handleGameOver, with the highScore its closure holds
      finalScore == score
      newHigh == IF finalScore > loopHighScore THEN finalScore ELSE highScore
  IN /\ now' = currentTime
     /\ IF gs.isRunning
          THEN /\ player' = p2
               /\ platforms' = pg.platforms
               /\ rng' = pg.rng
               /\ gs' = [gs EXCEPT !.lastUpdateTime = currentTime, !.baseSpeed = baseSpeed,
                                   !.score = score, !.bonusScore = bonusScore,
                                   !.coinsCollected = @ + coll.events,
                                   !.cameraX = cameraX,
                                   !.isRunning = ~gameOver]
               /\ status' = IF gameOver THEN "GAME_OVER" ELSE status
               /\ highScore' = IF gameOver THEN newHigh ELSE highScore
               /\ saved' = IF gameOver THEN Max(finalScore, loopHighScore) ELSE saved
          ELSE /\ gs' = [gs EXCEPT !.lastUpdateTime = currentTime]
               /\ UNCHANGED <<player, platforms, rng, status, highScore, saved>>
     /\ idle' = IF gs.isRunning THEN idle ELSE idle + 1
     /\ backgroundEnabled' = IF rerender THEN FALSE ELSE backgroundEnabled
     /\ loopHighScore' = IF rerender THEN highScore' ELSE loopHighScore
     /\ UNCHANGED <<boundStatus, backgroundQuality, timers, runs, presses, dashes>>
     /\ UNCHANGED <<serverVars, phys, gen, net>>

\* an animation frame dt after the previous one, up to the horizon; a render
\* and its effects complete, and the timers that are due run, before the next
\* animation frame
Frame(dt, horizon) ==
  /\ boundStatus = status
  /\ \A t \in timers : t > now
  /\ gs.isRunning \/ idle < MaxIdleFrames
  /\ now + dt <= horizon
  /\ loop(dt)

---------------------------------------------------------------------------
\* phys and gen while no pure function is exercised
NoPhys == [pre |-> mountPlayer, hold |-> FALSE, tf |-> 0, player |-> mountPlayer, landed |-> 0, steps |-> 0]
NoGen == [op |-> "none", difficulty |-> 0, prev |-> startPlatform, platform |-> startPlatform,
          last |-> startSegment, segment |-> startSegment, steps |-> 0]

---------------------------------------------------------------------------
(* The server: SessionManager, GameLoop and the socket handlers *)

MAX_PLAYERS == 10
fallLine == 800

MaxSockets == 12      \* connections over the server's life
MaxEvents == 2        \* events of a joined socket: join_game again,
                      \* update_position, disconnect

Sockets == 1..MaxSockets

\* the sockets that send more than their first join_game: the first to
\* connect, and the first to connect after MAX_PLAYERS others
Talkers == {1, MAX_PLAYERS + 1}

\* a field of a message that is missing or no number: undefined and NaN
\* compare false with every number and make every sum NaN
NaN == -1000000000

\* a < b and a + n as JavaScript computes them
lt(a, b) == a # NaN /\ b # NaN /\ a < b
plus(a, n) == IF a = NaN THEN NaN ELSE a + n

\* Math.max(a, b)
mathMax(a, b) == IF a = NaN \/ b = NaN THEN NaN ELSE Max(a, b)

\* the positions a client reports: running on the start platform, fallen
\* below the screen, and a message without x
running == [x |-> Px(500), y |-> Px(580), vx |-> INITIAL_SPEED, vy |-> 0, isGrounded |-> TRUE]
fallen == [x |-> Px(500), y |-> Px(900), vx |-> INITIAL_SPEED, vy |-> maxFallSpeed, isGrounded |-> FALSE]
malformed == [x |-> NaN, y |-> Px(580), vx |-> INITIAL_SPEED, vy |-> 0, isGrounded |-> TRUE]

PositionData == {running, fallen, malformed}

\* the positions that put the runner's box on the obstacle of a segment
atObstacles(segments) ==
  {[x |-> segments[i].obstacle.x, y |-> segments[i].obstacle.y, vx |-> INITIAL_SPEED,
    vy |-> 0, isGrounded |-> TRUE] : i \in {j \in 1..Len(segments) : segments[j].obstacle.kind # "none"}}

\* the handler that ran last, with its socket and its data
NoCall == [op |-> "none", socket |-> 0, data |-> running, returned |-> 0]

ServerInit ==
  /\ sessions = << >>
  /\ playerSessionMap = [s \in Sockets |-> 0]
  /\ tracks = << >>
  /\ emitted = << >>
  /\ srv = [uuid |-> 1, nextSocket |-> 1, connected |-> {}, rng |-> 0,
            joins |-> 0, events |-> 0, call |-> NoCall]

\* the index in sessions of the session with this id, 0 when there is none
sessionIndex(all, id) ==
  IF \E i \in 1..Len(all) : all[i].id = id
    THEN CHOOSE i \in 1..Len(all) : all[i].id = id
    ELSE 0

activePlayers(session) == Len(SelectSeq(session.players, LAMBDA p : p.alive))

\* a variant of the test below: a session of MAX_PLAYERS living runners
\* still has space
hasRoomOffByOne(session) == session.status = "live" /\ activePlayers(session) <= MAX_PLAYERS

\* the test of findOrCreateSession: a live session with space
hasRoom(session) == session.status = "live" /\ activePlayers(session) < MAX_PLAYERS

\* createSession(): a new live session with a fresh id
createSession(id) == [id |-> id, players |-> << >>, status |-> "live"]

\* findOrCreateSession(): the sessions after the call and the index of the
\* session found or created
findOrCreateSession(all, uuid) ==
  LET open == {i \in 1..Len(all) : hasRoom(all[i])}
  IN IF open # {}
       THEN [sessions |-> all, index |-> CHOOSE i \in open : \A j \in open : i <= j, created |-> FALSE]
       ELSE [sessions |-> Append(all, createSession(uuid)), index |-> Len(all) + 1, created |-> TRUE]

newPlayer(socketId) ==
  [id |-> socketId, x |-> 0, y |-> 0, vx |-> 0, vy |-> 0, isGrounded |-> TRUE,
   alive |-> TRUE, distance |-> 0]

\* joinSession(socketId)
joinSession(all, map, uuid, socketId) ==
  LET f == findOrCreateSession(all, uuid)
      joined == [f.sessions EXCEPT ![f.index].players = Append(@, newPlayer(socketId))]
  IN [sessions |-> joined,
      map |-> [map EXCEPT ![socketId] = joined[f.index].id],
      session |-> joined[f.index].id,
      uuid |-> IF f.created THEN uuid + 1 ELSE uuid]

\* a variant of leaveSession below: a session left empty stays in the map
leaveSessionKeepEmpty(all, map, socketId) ==
  LET sessionId == map[socketId]
      i == sessionIndex(all, sessionId)
      left == [all[i] EXCEPT !.players = SelectSeq(@, LAMBDA p : p.id # socketId)]
  IN IF sessionId = 0 \/ i = 0
       THEN [sessions |-> all, map |-> map, session |-> 0]
       ELSE [sessions |-> [all EXCEPT ![i] = left], map |-> [map EXCEPT ![socketId] = 0],
             session |-> sessionId]

\* a variant of leaveSession below: the entry of playerSessionMap is kept
leaveSessionKeepMap(all, map, socketId) ==
  LET sessionId == map[socketId]
      i == sessionIndex(all, sessionId)
      left == [all[i] EXCEPT !.players = SelectSeq(@, LAMBDA p : p.id # socketId)]
      kept == IF Len(left.players) = 0
                THEN SelectSeq(all, LAMBDA s : s.id # sessionId)
                ELSE [all EXCEPT ![i] = left]
  IN IF sessionId = 0 \/ i = 0
       THEN [sessions |-> all, map |-> map, session |-> 0]
       ELSE [sessions |-> kept, map |-> map, session |-> sessionId]

\* leaveSession(socketId): session is the id of the session returned, 0 for null
leaveSession(all, map, socketId) ==
  LET sessionId == map[socketId]
      i == sessionIndex(all, sessionId)
      left == [all[i] EXCEPT !.players = SelectSeq(@, LAMBDA p : p.id # socketId)]
      kept == IF Len(left.players) = 0
                THEN SelectSeq(all, LAMBDA s : s.id # sessionId)
                ELSE [all EXCEPT ![i] = left]
  IN IF sessionId = 0 \/ i = 0
       THEN [sessions |-> all, map |-> map, session |-> 0]
       ELSE [sessions |-> kept, map |-> [map EXCEPT ![socketId] = 0], session |-> sessionId]

\* a variant of movePlayer below: an eliminated player moves too
movePlayerAlways(p, data) ==
  [p EXCEPT !.x = data.x, !.y = data.y, !.vx = data.vx, !.vy = data.vy,
            !.isGrounded = data.isGrounded, !.distance = mathMax(@, data.x)]

\* updatePlayerPosition(socketId, data): the first player with this id moves,
\* if alive; distance = max(distance, x / 100), in 1/ScoreScale
movePlayer(p, data) ==
  IF p.alive
    THEN [p EXCEPT !.x = data.x, !.y = data.y, !.vx = data.vx, !.vy = data.vy,
                   !.isGrounded = data.isGrounded, !.distance = mathMax(@, data.x)]
    ELSE p

\* a variant of updatePlayerPosition below: the player moves in every
\* session that holds one with this id
updatePlayerPositionEverywhere(all, map, socketId, data) ==
  [i \in 1..Len(all) |->
     [all[i] EXCEPT !.players =
        [k \in 1..Len(all[i].players) |->
           IF all[i].players[k].id = socketId THEN movePlayer(all[i].players[k], data)
           ELSE all[i].players[k]]]]

updatePlayerPosition(all, map, socketId, data) ==
  LET i == sessionIndex(all, map[socketId])
      found == IF i = 0 THEN {} ELSE {k \in 1..Len(all[i].players) : all[i].players[k].id = socketId}
      k == CHOOSE k \in found : \A m \in found : k <= m
  IN IF i = 0 \/ found = {} THEN all
     ELSE [all EXCEPT ![i].players[k] = movePlayer(@, data)]

\* getAllSessions(): the sessions, in the order of the map
getAllSessions(all) == all

hitsObstacle(p, seg) ==
  /\ seg.obstacle.kind # "none"
  /\ lt(p.x, seg.obstacle.x + seg.obstacle.width)
  /\ lt(seg.obstacle.x, plus(p.x, Px(40)))
  /\ lt(p.y, seg.obstacle.y + seg.obstacle.height)
  /\ lt(seg.obstacle.y, plus(p.y, Px(40)))

\* a variant of checkPlayer below: no check of falling
checkPlayerNoFall(p, segments) ==
  LET relevantSegments == SelectSeq(segments, LAMBDA s :
                            lt(s.startX, plus(p.x, Px(100))) /\ lt(plus(p.x, -Px(100)), s.startX + s.width))
  IN IF ~p.alive THEN p
     ELSE IF \E i \in 1..Len(relevantSegments) : hitsObstacle(p, relevantSegments[i])
       THEN [p EXCEPT !.alive = FALSE]
     ELSE p

\* GameLoop.update() for one player against the segments of its session
checkPlayer(p, segments) ==
  LET relevantSegments == SelectSeq(segments, LAMBDA s :
                            lt(s.startX, plus(p.x, Px(100))) /\ lt(plus(p.x, -Px(100)), s.startX + s.width))
  IN IF ~p.alive THEN p
     ELSE IF lt(Px(fallLine), p.y) THEN [p EXCEPT !.alive = FALSE]
     ELSE IF \E i \in 1..Len(relevantSegments) : hitsObstacle(p, relevantSegments[i])
       THEN [p EXCEPT !.alive = FALSE]
     ELSE p

\* getSegments(sessionId)
getSegments(trk, id) == IF id \in DOMAIN trk THEN trk[id].segments ELSE << >>

\* GameLoop.update()
update(all, trk) ==
  [i \in 1..Len(getAllSessions(all)) |->
     IF all[i].status # "live" THEN all[i]
     ELSE [all[i] EXCEPT !.players =
             [k \in 1..Len(all[i].players) |-> checkPlayer(all[i].players[k], getSegments(trk, all[i].id))]]]

\* a variant of the loop below: one segment at most is generated
extendTrackOnce(last, segments, fresh, currentX, targetX, s) ==
  IF ~(currentX < targetX)
    THEN [lastSegment |-> last, segments |-> segments, newSegments |-> fresh, rng |-> s]
    ELSE LET g == generateNextSegment(last, DiffScale + currentX \div (100 * LScale), Draws(s))
         IN [lastSegment |-> g.segment, segments |-> Append(segments, g.segment),
             newSegments |-> Append(fresh, g.segment), rng |-> AdvanceRng(s, g.drawn)]

\* the while loop of generateTrackForSession: segments are generated until
\* one ends at targetX or beyond; difficulty = 1.0 + currentX / 10000, rounded
\* down to 1/DiffScale
RECURSIVE extendTrack(_, _, _, _, _, _)

\* the body of the loop: the segment generated is pushed on both lists and
\* currentX moves to its end
RECURSIVE pushSegment(_, _, _, _, _)
pushSegment(g, segments, fresh, targetX, s) ==
  extendTrack(g.segment, Append(segments, g.segment), Append(fresh, g.segment),
              g.segment.startX + g.segment.width, targetX, AdvanceRng(s, g.drawn))

extendTrack(last, segments, fresh, currentX, targetX, s) ==
  IF ~(currentX < targetX)
    THEN [lastSegment |-> last, segments |-> segments, newSegments |-> fresh, rng |-> s]
    ELSE pushSegment(generateNextSegment(last, DiffScale + currentX \div (100 * LScale), Draws(s)),
                     segments, fresh, targetX, s)

\* generateTrackForSession(sessionId, maxDistance)
generateTrackForSession(trk, id, maxDistance, s) ==
  LET generator == IF id \in DOMAIN trk THEN trk[id].lastSegment ELSE startSegment
      segments == getSegments(trk, id)
      targetX == maxDistance + Px(2000)
      currentX == IF Len(segments) > 0
                    THEN segments[Len(segments)].startX + segments[Len(segments)].width
                    ELSE -Px(50)
  IN extendTrack(generator, segments, << >>, currentX, targetX, s)

maxDist(session) ==
  LET ds == ({session.players[k].distance : k \in 1..Len(session.players)} \ {NaN}) \cup {0}
  IN CHOOSE d \in ds : \A e \in ds : e <= d

\* emit('session_update', session) to a socket, or to a room except a socket
session_update(room, to, except) ==
  [event |-> "session_update", room |-> room, to |-> to, except |-> except, segments |-> << >>]

\* a variant of the forEach below: a track_update goes out for every session
RECURSIVE tickSessionsAlwaysTrack(_, _, _, _, _)
tickSessionsAlwaysTrack(all, i, trk, s, out) ==
  IF i > Len(all) THEN [tracks |-> trk, rng |-> s, emitted |-> out]
  ELSE LET id == all[i].id
           t == generateTrackForSession(trk, id, maxDist(all[i]), s)
           trk1 == (id :> [lastSegment |-> t.lastSegment, segments |-> t.segments]) @@ trk
           trackUpdate == << [event |-> "track_update", room |-> id, to |-> 0, except |-> 0,
                              segments |-> t.newSegments] >>
       IN tickSessionsAlwaysTrack(all, i + 1, trk1, t.rng, out \o trackUpdate \o << session_update(id, 0, 0) >>)

\* the forEach of the tick after update(): track and emits, session by session
RECURSIVE tickSessions(_, _, _, _, _)
tickSessions(all, i, trk, s, out) ==
  IF i > Len(all) THEN [tracks |-> trk, rng |-> s, emitted |-> out]
  ELSE LET id == all[i].id
           t == generateTrackForSession(trk, id, maxDist(all[i]), s)
           trk1 == (id :> [lastSegment |-> t.lastSegment, segments |-> t.segments]) @@ trk
           trackUpdate == IF Len(t.newSegments) > 0
                            THEN << [event |-> "track_update", room |-> id, to |-> 0, except |-> 0,
                                     segments |-> t.newSegments] >>
                            ELSE << >>
           sessionUpdate == << session_update(id, 0, 0) >>
       IN tickSessions(all, i + 1, trk1, t.rng, out \o trackUpdate \o sessionUpdate)

\* the setInterval callback, 30 times a second
Tick ==
  LET after == update(sessions, tracks)
      t == tickSessions(getAllSessions(after), 1, tracks, srv.rng, << >>)
  IN /\ sessions' = after
     /\ tracks' = t.tracks
     /\ emitted' = t.emitted
     /\ srv' = [srv EXCEPT !.rng = t.rng, !.call = [NoCall EXCEPT !.op = "tick"]]
     /\ UNCHANGED playerSessionMap
     /\ UNCHANGED <<clientVars, phys, gen, net>>

\* join_game from this socket
join_game(socket) ==
  LET j == joinSession(sessions, playerSessionMap, srv.uuid, socket)
  IN /\ sessions' = j.sessions
     /\ playerSessionMap' = j.map
     /\ emitted' = << session_update(j.session, socket, 0), session_update(j.session, 0, socket) >>
     /\ srv' = [srv EXCEPT !.uuid = j.uuid, !.joins = @ + 1,
                           !.call = [NoCall EXCEPT !.op = "join_game", !.socket = socket],
                           !.nextSocket = IF socket = @ THEN @ + 1 ELSE @,
                           !.events = IF socket \in srv.connected THEN @ + 1 ELSE @,
                           !.connected = @ \cup {socket}]
     /\ UNCHANGED tracks
     /\ UNCHANGED <<clientVars, phys, gen, net>>

\* a socket connects and sends join_game
JoinGame == srv.nextSocket <= MaxSockets /\ join_game(srv.nextSocket)

\* a connected socket sends join_game once more
JoinAgain == srv.events < MaxEvents /\ \E socket \in srv.connected \cap Talkers : join_game(socket)

\* update_position with this data from this socket
update_position(socket, data) ==
  /\ sessions' = updatePlayerPosition(sessions, playerSessionMap, socket, data)
  /\ emitted' = IF sessionIndex(sessions, playerSessionMap[socket]) # 0
                  THEN << session_update(playerSessionMap[socket], 0, socket) >>
                  ELSE << >>
  /\ srv' = [srv EXCEPT !.events = @ + 1,
                        !.call = [NoCall EXCEPT !.op = "update_position", !.socket = socket, !.data = data]]
  /\ UNCHANGED <<playerSessionMap, tracks>>
  /\ UNCHANGED <<clientVars, phys, gen, net>>

\* update_position from a connected socket
UpdatePosition ==
  /\ srv.events < MaxEvents
  /\ \E socket \in srv.connected \cap Talkers :
       \E data \in PositionData \cup atObstacles(getSegments(tracks, playerSessionMap[socket])) :
         update_position(socket, data)

\* disconnect of this socket
disconnect(socket) ==
  LET l == leaveSession(sessions, playerSessionMap, socket)
  IN /\ sessions' = l.sessions
     /\ playerSessionMap' = l.map
     /\ emitted' = IF l.session # 0 THEN << session_update(l.session, 0, 0) >> ELSE << >>
     /\ srv' = [srv EXCEPT !.connected = @ \ {socket}, !.events = @ + 1,
                           !.call = [NoCall EXCEPT !.op = "disconnect", !.socket = socket,
                                                   !.returned = l.session]]
     /\ UNCHANGED tracks
     /\ UNCHANGED <<clientVars, phys, gen, net>>

\* a connected socket disconnects
Disconnect == srv.events < MaxEvents /\ \E socket \in srv.connected \cap Talkers : disconnect(socket)

\* cleanupSessions(), every 60 seconds: the sessions without players go
cleanupSessions ==
  /\ sessions' = SelectSeq(sessions, LAMBDA s : Len(s.players) # 0)
  /\ UNCHANGED <<playerSessionMap, tracks, emitted, srv>>
  /\ UNCHANGED <<clientVars, phys, gen, net>>

ServerNext == JoinGame \/ JoinAgain \/ UpdatePosition \/ Disconnect \/ Tick \/ cleanupSessions

ServerSpecInit ==
  /\ Mounted(0, TRUE)
  /\ ServerInit
  /\ phys = NoPhys
  /\ gen = NoGen

ServerSpec == ServerSpecInit /\ [][ServerNext]_vars

\* the handlers called for a socket without a session: one that has left, or
\* one that has not joined
LeaveAgain == srv.events < MaxEvents /\ \E socket \in Talkers \ srv.connected : disconnect(socket)

ReportStray ==
  /\ srv.events < MaxEvents
  /\ \E socket \in Talkers \ srv.connected : \E data \in PositionData : update_position(socket, data)

RegistryNext == ServerNext \/ LeaveAgain \/ ReportStray

RegistrySpec == ServerSpecInit /\ [][RegistryNext]_vars

\* a report from far down the track
ahead == [running EXCEPT !.x = Px(5000)]

ReportAhead ==
  /\ srv.events < MaxEvents
  /\ \E socket \in srv.connected \cap Talkers : update_position(socket, ahead)

\* the server with a runner that gets far
LeadNext == ServerNext \/ ReportAhead

LeadSpec == ServerSpecInit /\ [][LeadNext]_vars

\* C10: a join_game never adds the runner to a session that held MAX_PLAYERS
\* living runners before it; when no session had fewer, a session is created
\* and the runner is in it; and every join returns a session holding the runner
JoinStep == srv'.joins = srv.joins + 1

joiner == emitted'[1].to

C10_JoinNeverOverfills ==
  [][JoinStep =>
       LET id == playerSessionMap'[joiner]
           before == sessionIndex(sessions, id)
           after == sessionIndex(sessions', id)
       IN /\ id # 0
          /\ after # 0
          /\ \E k \in 1..Len(sessions'[after].players) :
               sessions'[after].players[k].id = joiner /\ sessions'[after].players[k].alive
          /\ before # 0 => activePlayers(sessions[before]) < MAX_PLAYERS
          /\ activePlayers(sessions'[after]) <= MAX_PLAYERS
          /\ (\A i \in 1..Len(sessions) : activePlayers(sessions[i]) >= MAX_PLAYERS)
               => /\ before = 0
                  /\ Len(sessions') = Len(sessions) + 1
                  /\ Len(sessions'[after].players) = 1]_vars

\* a runner has joined while the first session held MAX_PLAYERS living
\* runners, and is in a second session
C10_Witness ==
  /\ Len(sessions) = 2
  /\ activePlayers(sessions[1]) = MAX_PLAYERS
  /\ Len(sessions[2].players) = 1
  /\ Len(emitted) = 2
  /\ emitted[1].to # 0
  /\ emitted[1].room = sessions[2].id

Init ==
  /\ Mounted(0, TRUE)
  /\ ServerInit
  /\ phys = NoPhys
  /\ gen = NoGen

\* the jump game: presses and releases at frames of 50 ms
Next ==
  \/ startGame
  \/ rebindListeners
  \/ presses < MaxJumpDowns /\ jumpDown
  \/ jumpUp
  \/ Frame(Ms(maxDeltaTime), MaxTime)

Spec == Init /\ [][Next]_vars

\* jumps with the key held, at frames of 50 ms and after a suspended tab
ComboNext ==
  \/ startGame
  \/ rebindListeners
  \/ presses < MaxComboJumps /\ jumpDown
  \/ Frame(Ms(maxDeltaTime), ComboTime)
  \/ Frame(SuspendTime, ComboTime)

ComboSpec == Init /\ [][ComboNext]_vars

\* a run over the course, with a jump and a dash
CourseNext ==
  \/ startGame
  \/ rebindListeners
  \/ presses < MaxCourseJumps /\ jumpDown
  \/ dashDown
  \/ dashTimeout
  \/ Frame(Ms(maxDeltaTime), CourseTime)

CourseSpec == Init /\ [][CourseNext]_vars

\* Space or R after the game is over
restartGame == boundStatus = "GAME_OVER" /\ runs < MaxFallRuns /\ initGame

\* the client and the server share no state: the game runs while the server
\* has not started, and the server runs beside a game at rest
clientAtRest == ~gs.isRunning /\ idle >= MaxIdleFrames /\ presses = 0 /\ boundStatus = status
serverAtRest == srv.joins = 0 /\ srv.call.op = "none"

\* runs that end with a fall, and the server beside them
FallNext ==
  \/ serverAtRest /\ startGame
  \/ serverAtRest /\ restartGame
  \/ serverAtRest /\ rebindListeners
  \/ serverAtRest /\ presses < MaxFallJumps /\ jumpDown
  \/ serverAtRest /\ Frame(Ms(maxDeltaTime), FallTime)
  \/ clientAtRest /\ ServerNext

FallSpec == Init /\ [][FallNext]_vars

\* two runs that end with a fall, with a jump off the edge of the start
\* platform in one of them
SaveNext ==
  \/ startGame
  \/ restartGame
  \/ rebindListeners
  \/ presses < MaxSaveJumps /\ atEdge /\ jumpDown
  \/ Frame(Ms(maxDeltaTime), SaveTime)

SaveSpec == Init /\ [][SaveNext]_vars

\* a run to the end of the start platform and beyond: presses at the edge
\* and in the air, and releases
EdgeNext ==
  \/ startGame
  \/ rebindListeners
  \/ presses < MaxEdgeJumps /\ (atEdge \/ ~player.isGrounded) /\ jumpDown
  \/ Frame(Ms(maxDeltaTime), EdgeTime)

EdgeSpec == Init /\ [][EdgeNext]_vars

\* the server with one runner, its events handled, after a tick
serverQuiet == srv.joins = 1 /\ srv.events = MaxEvents /\ srv.call.op = "tick"

\* the server before any game, and then a run from platform to platform, the
\* key held from the first press on, beside the server at rest
TrackNext ==
  \/ runs = 0 /\ idle = 0 /\ ServerNext
  \/ serverQuiet /\ startGame
  \/ serverQuiet /\ rebindListeners
  \/ serverQuiet /\ presses < MaxTrackJumps /\ (atEdge \/ atTop) /\ jumpDown
  \/ serverQuiet /\ Frame(Ms(maxDeltaTime), TrackTime)

TrackSpec == Init /\ [][TrackNext]_vars

\* a run with dashes, at frames of 50 ms and of 41.7 ms
DashNext ==
  \/ startGame
  \/ rebindListeners
  \/ dashDown
  \/ dashTimeout
  \/ Frame(Ms(maxDeltaTime), DashTime)
  \/ Frame(Ms(maxDeltaTime) - 1, DashTime)

DashSpec == Init /\ [][DashNext]_vars

\* keydown of R while playing
restartRun == boundStatus = "PLAYING" /\ runs < MaxRedoRuns /\ initGame

\* a run with a dash, a restart in the midst of it, and another dash
RedoNext ==
  \/ startGame
  \/ restartRun
  \/ rebindListeners
  \/ boundStatus = "PLAYING" /\ dashes < MaxRedoDashes /\ handleDash
  \/ dashTimeout
  \/ Frame(Ms(maxDeltaTime), RedoTime)
  \/ Frame(Ms(maxDeltaTime) - 1, RedoTime)

RedoSpec == Init /\ [][RedoNext]_vars

---------------------------------------------------------------------------
(* NetworkManager: the players map of a client in a room *)

\* crypto.randomUUID() of this client, and the ids of the other clients
selfUuid == "self"
Remotes == {"r1", "r2"}

\* the username passed to connect(); "" when none is passed
Usernames == {"Ada", ""}

\* Map.set(state.id, state)
setPlayer(players, state) == {p \in players : p.id # state.id} \cup {state}

\* pruneStale(): every entry not updated for staleAfter ms goes
pruneStale(players, dateNow) ==
  LET cutoff == dateNow - Ms(staleAfter)
  IN {p \in players : ~(p.updatedAt < cutoff)}

\* emitSession(): onSessionUpdate gets the values of the map
emitSession(players) == [emitted |-> TRUE, players |-> players]

\* connect(username), with Supabase configured or not
connect ==
  /\ net.selfId = ""
  /\ \E username \in Usernames, configured \in BOOLEAN :
        LET name == IF username # "" THEN username
                    ELSE IF configured THEN "Runner-100" ELSE "YOU"
            me == [id |-> selfUuid, username |-> name, x |-> 0, alive |-> TRUE, updatedAt |-> now]
        IN net' = [net EXCEPT !.selfId = selfUuid, !.name = name, !.channel = configured,
                              !.players = setPlayer(@, me),
                              !.session = emitSession(setPlayer(net.players, me))]
  /\ UNCHANGED <<clientVars, serverVars, phys, gen>>

\* the broadcast handler: the state of another client arrives; its
\* updatedAt is the sender's clock, now or staleAfter ms and more ago
receiveState ==
  /\ net.channel
  /\ \E id \in Remotes, age \in {0, Ms(staleAfter) + 1} :
        LET data == [id |-> id, username |-> id, x |-> Px(500), alive |-> TRUE, updatedAt |-> now - age]
            players == pruneStale(setPlayer(net.players, data), now)
        IN net' = [net EXCEPT !.players = players, !.session = emitSession(players)]
  /\ UNCHANGED <<clientVars, serverVars, phys, gen>>

\* updatePosition(x, y, vx, vy, isGrounded)
updatePosition ==
  /\ net.selfId # ""
  /\ IF now - net.lastSendMs < Ms(sendInterval) THEN UNCHANGED net
     ELSE LET prev == {p \in net.players : p.id = net.selfId}
              username == IF prev = {} THEN "YOU"
                          ELSE LET p == CHOOSE p \in prev : TRUE
                               IN IF p.username = "" THEN "YOU" ELSE p.username
              updated == [id |-> net.selfId, username |-> username, x |-> Px(500), alive |-> TRUE,
                          updatedAt |-> now]
          IN net' = [net EXCEPT !.lastSendMs = now, !.players = setPlayer(@, updated)]
  /\ UNCHANGED <<clientVars, serverVars, phys, gen>>

\* time passes: 2.5 s, or 2.55 s
pass ==
  /\ \E dt \in {Ms(staleAfter) \div 2, Ms(staleAfter) \div 2 + Ms(sendInterval)} :
        /\ now + dt <= NetTime
        /\ now' = now + dt
  /\ UNCHANGED <<player, platforms, gs, status, boundStatus, highScore, loopHighScore, backgroundEnabled, backgroundQuality, saved, timers, rng, runs, presses, dashes, idle>>
  /\ UNCHANGED <<serverVars, phys, gen, net>>

NetNext == connect \/ receiveState \/ updatePosition \/ pass

NetSpec == Init /\ [][NetNext]_vars

---------------------------------------------------------------------------
(* updatePlayer on its own: starting states drawn from bounded sets *)

MaxPhysSteps == 3     \* updatePlayer calls in a row

\* timeFactor 0.5, 1 (the default), 1.5 and 3 (the loop's largest)
TimeFactors == {1, TScale, 3, Ms(maxDeltaTime)}
\* vy: a jump, rest, falling at 5, 14.8, the cap, and above the cap
StartVys == {JUMP_FORCE, 0, 5 * VScale, maxFallSpeed - 4, maxFallSpeed, maxFallSpeed + 100}
\* y: in the air, standing on the start platform, 14 px into it, below it
StartYs == {Px(300), Px(580), Px(594), Px(700)}
\* x: over the start platform, near its end, and past its end
StartXs == {0, Px(1400), Px(1445)}

PhysInit ==
  /\ Mounted(0, TRUE)
  /\ ServerInit
  /\ gen = NoGen
  /\ \E x \in StartXs, y \in StartYs, vy \in StartVys, timer \in {0, MAX_JUMP_FRAMES} :
        LET p == [freshPlayer EXCEPT !.x = x, !.y = y, !.vy = vy, !.isGrounded = FALSE,
                                     !.jumpHoldTimer = timer]
        IN phys = [pre |-> p, hold |-> FALSE, tf |-> 0, player |-> p, landed |-> 0, steps |-> 0]

\* one call updatePlayer(phys.player, [startPlatform], INITIAL_SPEED, 1, hold, tf)
PhysStep ==
  /\ phys.steps < MaxPhysSteps
  /\ \E tf \in TimeFactors, hold \in BOOLEAN :
        LET up == updatePlayer(phys.player, <<startPlatform>>, INITIAL_SPEED, getSpeedMultiplier, hold, tf, now)
        IN phys' = [pre |-> phys.player, hold |-> hold, tf |-> tf, player |-> up.updatedPlayer,
                    landed |-> up.landedPlatform, steps |-> phys.steps + 1]
  /\ UNCHANGED <<clientVars, serverVars, gen, net>>

PhysNext == PhysStep

PhysSpec == PhysInit /\ [][PhysNext]_vars

\* lists of platforms: the start platform alone; two platforms that meet at
\* x = 30, the second 4 px higher; a platform behind the runner and the
\* start platform
PlatformLists ==
  {<<startPlatform>>,
   <<[startPlatform EXCEPT !.width = Px(80)],
     [startPlatform EXCEPT !.x = Px(30), !.y = @ - Px(4), !.width = Px(1420)]>>,
   <<[startPlatform EXCEPT !.x = -Px(500), !.width = Px(100)], startPlatform>>}

\* one call updatePlayer(phys.player, plats, INITIAL_SPEED, 1, hold, tf);
\* platforms holds the list passed
LandStep ==
  /\ phys.steps < MaxPhysSteps
  /\ \E tf \in TimeFactors, hold \in BOOLEAN, plats \in PlatformLists :
        LET up == updatePlayer(phys.player, plats, INITIAL_SPEED, getSpeedMultiplier, hold, tf, now)
        IN /\ phys' = [pre |-> phys.player, hold |-> hold, tf |-> tf, player |-> up.updatedPlayer,
                       landed |-> up.landedPlatform, steps |-> phys.steps + 1]
           /\ platforms' = plats
  /\ UNCHANGED <<player, gs, status, boundStatus, highScore, loopHighScore, backgroundEnabled, backgroundQuality, saved, now, timers, rng, runs, presses, dashes, idle>>
  /\ UNCHANGED <<serverVars, gen, net>>

LandNext == LandStep

LandSpec == PhysInit /\ [][LandNext]_vars

---------------------------------------------------------------------------
(* The generators on their own: difficulty and draws from bounded sets *)

MaxGenSteps == 2      \* platforms / segments generated in a row

\* difficultyMultiplier 0, 0.5, 1, 1.5, 2 and 100
Difficulties == {0, DiffScale \div 2, DiffScale, (3 * DiffScale) \div 2, 2 * DiffScale, 100 * DiffScale}
\* Math.random() 0, 0.5 and 0.95
RandomDraws == {0, RandScale \div 2, RandScale - 1}

\* the draws of one call: the first three chosen, the others from a stream
DrawsFrom(a, b, c) == <<a, b, c>> \o Draws(0)

GenInit ==
  /\ Mounted(0, TRUE)
  /\ ServerInit
  /\ phys = NoPhys
  /\ gen = NoGen

\* client: generatePlatform(gen.platform, d)
ClientGenerate ==
  /\ gen.steps < MaxGenSteps
  /\ gen.op \in {"none", "client"}
  /\ \E d \in Difficulties, a \in RandomDraws, b \in RandomDraws, c \in RandomDraws :
        gen' = [gen EXCEPT !.op = "client", !.difficulty = d, !.prev = gen.platform,
                           !.platform = generatePlatform(gen.platform, d, DrawsFrom(a, b, c)).platform,
                           !.steps = @ + 1]
  /\ UNCHANGED <<clientVars, serverVars, phys, net>>

\* server: generator.generateNextSegment(d) of a generator whose lastSegment is gen.segment
ServerGenerate ==
  /\ gen.steps < MaxGenSteps
  /\ gen.op \in {"none", "server"}
  /\ \E d \in Difficulties, a \in RandomDraws, b \in RandomDraws, c \in RandomDraws :
        gen' = [gen EXCEPT !.op = "server", !.difficulty = d, !.last = gen.segment,
                           !.segment = generateNextSegment(gen.segment, d, DrawsFrom(a, b, c)).segment,
                           !.steps = @ + 1]
  /\ UNCHANGED <<clientVars, serverVars, phys, net>>

GenNext == ClientGenerate \/ ServerGenerate

GenSpec == GenInit /\ [][GenNext]_vars

---------------------------------------------------------------------------
(* Gravity and landing *)

\* the last call applied no jump hold force
GravityAlone == ~(phys.hold /\ phys.pre.jumpHoldTimer > 0)

\* C5: after every updatePlayer call vy is at most the fall-speed cap; with
\* gravity alone and no landing vy grows by GRAVITY * timeFactor up to the
\* cap, and stays at the cap once there
C5_FallSpeedCapped ==
  phys.steps > 0 =>
    /\ phys.player.vy <= maxFallSpeed
    /\ (GravityAlone /\ phys.landed = 0)
         => phys.player.vy = Min(phys.pre.vy + (GRAVITY * phys.tf) \div TScale, maxFallSpeed)

\* gravity alone took vy from below the cap to the cap, which it would have passed
C5_Witness ==
  /\ phys.steps > 0
  /\ GravityAlone
  /\ phys.landed = 0
  /\ phys.pre.vy < maxFallSpeed
  /\ phys.pre.vy + (GRAVITY * phys.tf) \div TScale > maxFallSpeed
  /\ phys.player.vy = maxFallSpeed

\* the scenario: one call for a runner at x = 0, y = 594 falling at vy = 5
\* over the platform at y = 620
LandingScenario ==
  /\ phys.steps = 1
  /\ phys.pre.x = 0
  /\ phys.pre.y = Px(594)
  /\ phys.pre.vy = 5 * VScale

LandedOnPlatform ==
  /\ phys.player.y = startPlatform.y - Px(PLAYER_HEIGHT)
  /\ phys.player.vy = 0
  /\ phys.player.isGrounded
  /\ phys.player.jumpCount = 0
  /\ phys.player.canDoubleJump
  /\ phys.landed = 1

\* C6 as stated: the scenario lands the runner, whatever the timeFactor
C6_ScenarioLands == LandingScenario => LandedOnPlatform

\* C6: the scenario lands the runner on the platform (y = 620 - PLAYER_HEIGHT,
\* vy = 0, grounded, jumpCount 0, canDoubleJump, landedPlatform the platform)
\* when timeFactor is 1.5 or more; at timeFactor 1 or less the runner is not
\* grounded and no platform is returned
C6_ScenarioLandsAtLargeStep ==
  LandingScenario =>
    /\ phys.tf >= 3 => LandedOnPlatform
    /\ phys.tf <= TScale => (~phys.player.isGrounded /\ phys.landed = 0)

C6_Witness == LandingScenario /\ phys.tf = 3 /\ LandedOnPlatform

---------------------------------------------------------------------------
(* Generated gaps and widths *)

\* C8: a generated platform or segment starts strictly after the end of the
\* one before it, for every difficulty
C8_StartsAfterPrevious ==
  /\ gen.op = "client" => gen.platform.x > gen.prev.x + gen.prev.width
  /\ gen.op = "server" => gen.segment.startX > gen.last.startX + gen.last.width

\* C9: a generated platform or segment has a width within the configured
\* bounds, for every difficulty
C9_WidthWithinBounds ==
  /\ gen.op = "client" =>
        (gen.platform.width >= Px(PLATFORM_MIN_WIDTH) /\ gen.platform.width <= Px(PLATFORM_MAX_WIDTH))
  /\ gen.op = "server" =>
        (gen.segment.width >= Px(MIN_WIDTH) /\ gen.segment.width <= Px(MAX_WIDTH))

---------------------------------------------------------------------------
(* The combo window *)

\* a frame of a run in which the runner comes down on a platform
LandingFrame == gs.isRunning /\ ~player.isGrounded /\ player'.isGrounded

\* C1: a landing more than 1500 ms after the previous landing of the run
\* resets comboCount to 1
C1_LateLandingResets ==
  [][(LandingFrame /\ player.lastLandTime > 0 /\ now' - player.lastLandTime > Ms(comboWindow))
       => player'.comboCount = 1]_vars

---------------------------------------------------------------------------
(* The dash *)

\* C2: dashCooldown is never negative
C2_CooldownNeverNegative == player.dashCooldown >= 0

\* a frame of a run moves the runner by baseSpeed * speedMultiplier * timeFactor
AdvanceByBaseSpeed ==
  (gs.isRunning /\ now' # now)
    => player'.x = player.x + gs'.baseSpeed * getSpeedMultiplier * Min(now' - now, Ms(maxDeltaTime))

---------------------------------------------------------------------------
(* The jump state machine *)

\* a jumpDown of a run, and the runner it finds
JumpDownStep == presses' # presses /\ gs.isRunning

\* the runner one frame of 50 ms later, for a runner p and a held/released key
nextAdvance(p, hold) ==
  updatePlayer(p, platforms, gs.baseSpeed, getSpeedMultiplier, hold, Ms(maxDeltaTime), now).updatedPlayer

\* C4: a jumpDown after the double jump and before the next landing changes
\* neither the runner nor the advance that follows it
C4_ThirdJumpDownNoEffect ==
  [][(JumpDownStep /\ ~player.isGrounded /\ player.jumpCount = MAX_JUMPS)
       => /\ player' = player
          /\ nextAdvance(player', gs'.isHoldingJump) = nextAdvance(player, gs.isHoldingJump)]_vars

---------------------------------------------------------------------------
(* Items *)

\* the collected items of a platform list, each named by its platform's x
Collected(plats) ==
  UNION {{<<plats[i].x, j>> : j \in {j \in 1..Len(plats[i].items) : plats[i].items[j].collected}} :
           i \in 1..Len(plats)}

Present(plats) == {plats[i].x : i \in 1..Len(plats)}

\* C7: in a run, an item once collected stays collected, and a frame
\* counts one coin, and outside landings adds one bonus of 50, for each item it
\* collects and nothing for any other item
C7_ItemCollectedOnce ==
  [][(gs.isRunning /\ now' # now) =>
       LET newly == Collected(platforms') \ Collected(platforms)
       IN /\ \A k \in Collected(platforms) : k[1] \in Present(platforms') => k \in Collected(platforms')
          /\ gs'.coinsCollected = gs.coinsCollected + Cardinality(newly)
          /\ (player.isGrounded \/ ~player'.isGrounded)
               => gs'.bonusScore = gs.bonusScore + itemScore * Cardinality(newly)]_vars

\* the runner runs over an item for the second frame in a row: the item is
\* collected and has counted once
C7_Witness ==
  /\ gs.isRunning
  /\ player.isGrounded
  /\ gs.coinsCollected = 1
  /\ \E i \in 1..Len(platforms) : \E j \in 1..Len(platforms[i].items) :
        /\ platforms[i].items[j].collected
        /\ itemHit(player, platforms[i].items[j])
        /\ itemHit([player EXCEPT !.x = @ - INITIAL_SPEED * Ms(maxDeltaTime)], platforms[i].items[j])

---------------------------------------------------------------------------
(* The registry of sessions *)

\* C11: every session's runner list holds at most MAX_PLAYERS runners
C11_AtMostMaxPlayers == \A i \in 1..Len(sessions) : Len(sessions[i].players) <= MAX_PLAYERS

\* a leave for a socket that has left or has not joined
StrayLeaveStep == srv'.call.op = "disconnect" /\ srv'.call.socket \notin srv.connected

\* C13: a second leave for a player id, and a leave for an id that never
\* joined, return null and change neither the sessions nor playerSessionMap
C13_LeaveIdempotent ==
  [][StrayLeaveStep =>
       /\ srv'.call.returned = 0
       /\ sessions' = sessions
       /\ playerSessionMap' = playerSessionMap]_vars

\* a socket that had joined has left a second time
C13_Witness ==
  /\ srv.call.op = "disconnect"
  /\ srv.call.returned = 0
  /\ srv.call.socket < srv.nextSocket
  /\ Len(sessions) > 0

\* C14: no session of the registry has an empty runner list; the leave of
\* the last runner of a session removes the session
C14_NoEmptySession == \A i \in 1..Len(sessions) : Len(sessions[i].players) > 0

\* the last runner of a session has left, and the session is gone
C14_Witness ==
  /\ srv.call.op = "disconnect"
  /\ srv.call.returned # 0
  /\ sessionIndex(sessions, srv.call.returned) = 0

\* C15: GameLoop holds a generator and segments only for the sessions of the
\* registry: those of a session destroyed by its last leave are discarded
C15_TrackDiscardedWithSession == \A id \in DOMAIN tracks : sessionIndex(sessions, id) # 0

---------------------------------------------------------------------------
(* The tick *)

TickStep == srv'.call.op = "tick"

\* the end of the last segment of a list, the start of the track when empty
frontier(segments) ==
  IF Len(segments) = 0 THEN -Px(50)
  ELSE segments[Len(segments)].startX + segments[Len(segments)].width

\* the segments of the track_update a list of events holds for a room
trackUpdateOf(events, room) ==
  LET found == {k \in 1..Len(events) : events[k].event = "track_update" /\ events[k].room = room}
  IN IF found = {} THEN << >> ELSE events[CHOOSE k \in found : TRUE].segments

\* C12: a tick leaves every session's track ending at or beyond
\* maxDistance * 100 + 2000; the segments returned are exactly those appended
\* to the session's list, in order, and none when the track reached that far
C12_TrackReachesLookahead ==
  [][TickStep =>
       \A i \in 1..Len(sessions') :
         LET id == sessions'[i].id
             old == getSegments(tracks, id)
             new == getSegments(tracks', id)
             returned == trackUpdateOf(emitted', id)
             targetX == maxDist(sessions'[i]) + Px(2000)
         IN /\ new = old \o returned
            /\ frontier(new) >= targetX
            /\ frontier(old) >= targetX => returned = << >>
            /\ \A k \in 1..Len(returned) :
                 frontier(SubSeq(new, 1, Len(old) + k - 1)) < targetX]_vars

\* a tick has extended a track generated by an earlier tick
C12_Witness ==
  /\ srv.call.op = "tick"
  /\ \E i \in 1..Len(sessions) :
       LET returned == trackUpdateOf(emitted, sessions[i].id)
       IN /\ Len(returned) > 0
          /\ Len(getSegments(tracks, sessions[i].id)) > Len(returned)

\* the events of a list that are of this kind and go to the whole room
toRoom(events, kind, room) ==
  {k \in 1..Len(events) : events[k].event = kind /\ events[k].room = room
                            /\ events[k].to = 0 /\ events[k].except = 0}

\* C16: a tick emits one session_update for each session of the registry,
\* and a track_update for a session exactly when segments were generated for
\* it, carrying those segments; a join emits a session_update to the joiner
\* and to the others of the room, a leave emits one to the room
C16_Emissions ==
  [][/\ TickStep =>
          /\ \A k \in 1..Len(emitted') : sessionIndex(sessions', emitted'[k].room) # 0
          /\ \A i \in 1..Len(sessions') :
               LET id == sessions'[i].id
                   old == getSegments(tracks, id)
                   new == getSegments(tracks', id)
                   updates == toRoom(emitted', "track_update", id)
               IN /\ Cardinality(toRoom(emitted', "session_update", id)) = 1
                  /\ Cardinality(updates) = IF Len(new) > Len(old) THEN 1 ELSE 0
                  /\ \A k \in updates : emitted'[k].segments = SubSeq(new, Len(old) + 1, Len(new))
     /\ srv'.call.op = "join_game" =>
          LET id == playerSessionMap'[srv'.call.socket]
          IN emitted' = << session_update(id, srv'.call.socket, 0), session_update(id, 0, srv'.call.socket) >>
     /\ (srv'.call.op = "disconnect" /\ srv'.call.returned # 0) =>
          emitted' = << session_update(srv'.call.returned, 0, 0) >>]_vars

\* a tick has emitted a track_update for one session and none for another
C16_Witness ==
  /\ srv.call.op = "tick"
  /\ \E i, j \in 1..Len(sessions) :
       /\ toRoom(emitted, "track_update", sessions[i].id) # {}
       /\ toRoom(emitted, "track_update", sessions[j].id) = {}
       /\ toRoom(emitted, "session_update", sessions[j].id) # {}

---------------------------------------------------------------------------
(* Elimination *)

\* C17: after a tick no runner of a live session is alive below the fall
\* line; on the client the frame that takes the runner below the canvas
\* stops the run, and no frame moves the runner of a stopped run
C17_FallOut ==
  [][/\ TickStep =>
          \A i \in 1..Len(sessions') : \A k \in 1..Len(sessions'[i].players) :
            sessions'[i].status = "live" =>
              ~(sessions'[i].players[k].alive /\ lt(Px(fallLine), sessions'[i].players[k].y))
     /\ (now' # now /\ gs.isRunning /\ player'.y > Px(CANVAS_HEIGHT)) =>
          (~gs'.isRunning /\ status' = "GAME_OVER")
     /\ (now' # now /\ ~gs.isRunning) => (player' = player /\ ~gs'.isRunning)
     /\ gs'.isRunning => player'.y <= Px(CANVAS_HEIGHT)]_vars

\* a run has ended with the runner below the canvas and a frame has passed
\* since; on the server a tick has eliminated a runner below the fall line
C17_Witness ==
  /\ status = "GAME_OVER"
  /\ ~gs.isRunning
  /\ player.y > Px(CANVAS_HEIGHT)
  /\ idle > 0
  /\ srv.call.op = "tick"
  /\ \E i \in 1..Len(sessions) : \E k \in 1..Len(sessions[i].players) :
       ~sessions[i].players[k].alive /\ lt(Px(fallLine), sessions[i].players[k].y)

\* a disconnect handler has run in this step
LeaveStep == srv'.call.op = "disconnect" /\ srv'.events # srv.events

\* the eliminated runners of a list: those of one socket, and those of the
\* other sockets
eliminatedOf(players, socket) == SelectSeq(players, LAMBDA p : ~p.alive /\ p.id = socket)
eliminatedBut(players, socket) == SelectSeq(players, LAMBDA p : ~p.alive /\ p.id # socket)

\* C18: an eliminated runner stays eliminated, and no position report and no
\* tick changes any of its fields, until its socket leaves
C18_EliminationTerminal ==
  [][/\ ~LeaveStep =>
          \A i \in 1..Len(sessions) : \A k \in 1..Len(sessions[i].players) :
            ~sessions[i].players[k].alive =>
              /\ i <= Len(sessions')
              /\ k <= Len(sessions'[i].players)
              /\ sessions'[i].players[k] = sessions[i].players[k]
     /\ LeaveStep =>
          \A i \in 1..Len(sessions) :
            LET j == sessionIndex(sessions', sessions[i].id)
                after == IF j = 0 THEN << >> ELSE sessions'[j].players
            IN /\ eliminatedBut(after, srv'.call.socket) = eliminatedBut(sessions[i].players, srv'.call.socket)
               /\ eliminatedOf(after, srv'.call.socket)
                    \in {<< >>, eliminatedOf(sessions[i].players, srv'.call.socket)}]_vars

\* an eliminated runner has sent a position report, which was not applied
C18_Witness ==
  /\ srv.call.op = "update_position"
  /\ \E i \in 1..Len(sessions) : \E k \in 1..Len(sessions[i].players) :
       /\ sessions[i].players[k].id = srv.call.socket
       /\ ~sessions[i].players[k].alive
       /\ sessions[i].players[k].y # srv.call.data.y

(***************************************************************************)
(* Reports between ticks                                                   *)
(***************************************************************************)

\* an update_position handler has run in this step
ReportStep == srv'.call.op = "update_position" /\ srv'.events # srv.events

\* the runner's box overlaps the obstacle of a segment of the list
overlaps(p, segments) == \E n \in 1..Len(segments) : hitsObstacle(p, segments[n])

\* C19: a position report, well-formed as it may be, never takes an alive
\* runner whose box overlaps an obstacle of its session out of the overlap
\* while leaving it alive
C19_ImpactBeforeReport ==
  [][(ReportStep /\ srv'.call.data \in {running, fallen}) =>
       \A i \in 1..Len(sessions) : \A k \in 1..Len(sessions[i].players) :
         LET segments == getSegments(tracks, sessions[i].id)
         IN (sessions[i].players[k].alive /\ overlaps(sessions[i].players[k], segments))
              => ~(/\ sessions'[i].players[k].alive
                   /\ ~overlaps(sessions'[i].players[k], segments))]_vars

\* every field of the report is there, the numbers are numbers and the flag
\* is a boolean
wellFormed(data) ==
  /\ data.x # NaN /\ data.y # NaN /\ data.vx # NaN /\ data.vy # NaN
  /\ data.isGrounded \in BOOLEAN

\* C20: a position report from a socket with no session, or one with a field
\* missing or not a number, changes no runner and nothing of the registry
C20_InvalidReportDropped ==
  [][(/\ ReportStep
      /\ \/ sessionIndex(sessions, playerSessionMap[srv'.call.socket]) = 0
         \/ ~wellFormed(srv'.call.data))
       => (sessions' = sessions /\ playerSessionMap' = playerSessionMap)]_vars

(***************************************************************************)
(* Leaving                                                                 *)
(***************************************************************************)

\* the sockets that have connected and have disconnected since
leftSockets == (1..(srv.nextSocket - 1)) \ srv.connected

\* C21: once the disconnect of a socket has been handled, no session holds a
\* runner with its id, so that no tick reads one and no session_update
\* carries one
C21_NoRunnerAfterLeave ==
  \A socket \in leftSockets : \A i \in 1..Len(sessions) : \A k \in 1..Len(sessions[i].players) :
    sessions[i].players[k].id # socket

(***************************************************************************)
(* Bonuses of a landing                                                    *)
(***************************************************************************)

\* a frame of a run
RunFrame == gs.isRunning /\ now' # now

\* what the step adds to bonusScore beyond the coins and the combo bonus
typeDelta ==
  gs'.bonusScore - gs.bonusScore
    - itemScore * (gs'.coinsCollected - gs.coinsCollected)
    - (IF LandingFrame /\ player'.comboCount > 1 THEN player'.comboCount * comboUnitBonus ELSE 0)

\* C22: the frame that takes the runner from the air to a platform adds the
\* score delta of that platform's type to bonusScore, and no other frame adds
\* any
C22_TypeBonusOncePerLanding ==
  [][RunFrame =>
       IF LandingFrame
         THEN \E i \in 1..Len(platforms) :
                standsOn(player', platforms[i]) /\ typeDelta = scoreBonus(platforms[i].type)
         ELSE typeDelta = 0]_vars

\* the runner has landed on a platform of a type that has a score delta, and
\* that delta is all there is in bonusScore
C22_Witness ==
  /\ gs.isRunning
  /\ gs.coinsCollected = 0
  /\ \E i \in 1..Len(platforms) :
       /\ standsOn(player, platforms[i])
       /\ scoreBonus(platforms[i].type) # 0
       /\ gs.bonusScore = scoreBonus(platforms[i].type)

(***************************************************************************)
(* The size of the step                                                    *)
(***************************************************************************)

\* the call of PhysStep with another timeFactor
advance(p, hold, timeFactor) ==
  updatePlayer(p, <<startPlatform>>, INITIAL_SPEED, getSpeedMultiplier, hold, timeFactor, now)

\* the fields that the integration moves
motion(p) == <<p.x, p.y, p.vy, p.jumpHoldTimer, p.dashCooldown>>

\* C23: with no landing and with vy below the cap throughout, the call with
\* timeFactor a + b leaves x, y, vy, jumpHoldTimer and dashCooldown as the
\* call with timeFactor a followed by the call with timeFactor b leaves them
C23_StepSizeIndependent ==
  phys.steps > 0 =>
    \A a \in 1..(phys.tf - 1) :
      LET first == advance(phys.pre, phys.hold, a)
          second == advance(first.updatedPlayer, phys.hold, phys.tf - a)
      IN (/\ phys.landed = 0 /\ first.landedPlatform = 0 /\ second.landedPlatform = 0
          /\ phys.player.vy < maxFallSpeed
          /\ second.updatedPlayer.vy < maxFallSpeed)
           => motion(phys.player) = motion(second.updatedPlayer)

(***************************************************************************)
(* The segment lists                                                       *)
(***************************************************************************)

\* C24: the segment list of a session begins with the starting platform,
\* startX = -50 and width 1500, which lies under the spawn point x = 0
C24_ListBeginsWithStart ==
  \A id \in DOMAIN tracks :
    Len(tracks[id].segments) > 0 =>
      /\ tracks[id].segments[1].startX = -Px(50)
      /\ tracks[id].segments[1].width = Px(1500)

\* each segment ends where a later one starts, or before
segmentsApart(segments) ==
  \A i, j \in 1..Len(segments) :
    i < j => /\ segments[i].startX < segments[j].startX
             /\ segments[i].startX + segments[i].width <= segments[j].startX

platformsApart(plats) ==
  \A i, j \in 1..Len(plats) :
    i < j => /\ plats[i].x < plats[j].x
             /\ plats[i].x + plats[i].width <= plats[j].x

\* the platforms initGame buffers
buffered == UNION {{bufferPlatforms(<<startPlatform>>, s, PLATFORM_BUFFER_COUNT).platforms[i] :
                     i \in 1..(PLATFORM_BUFFER_COUNT + 1)} : s \in Seeds}

\* C25: the segment list of every session and the client's platform list are
\* in strictly ascending order of startX, and no two of their segments
\* overlap horizontally
C25_ListsOrdered ==
  /\ \A id \in DOMAIN tracks : segmentsApart(tracks[id].segments)
  /\ platformsApart(platforms)

\* the client's list has lost its first platforms to the filter and has got
\* platforms from the loop, and the list of a session holds segments of two
\* generations
C25_Witness ==
  /\ Len(platforms) > 1
  /\ platforms[1] # startPlatform
  /\ platforms[Len(platforms)] \notin buffered
  /\ \E id \in DOMAIN tracks : Len(tracks[id].segments) > 1

(***************************************************************************)
(* The cap of the frame's delta time                                       *)
(***************************************************************************)

\* timeFactor 3, the 50 ms of the cap in frames of the 60 fps baseline
maxTimeFactor == 3 * TScale

\* C26: however long after the previous frame a frame of a run comes, the
\* runner's x advances by at most baseSpeed * speedMultiplier * 3
C26_AdvanceCapped ==
  [][RunFrame => player'.x - player.x <= gs'.baseSpeed * getSpeedMultiplier * maxTimeFactor]_vars

\* a run that started with the clock at 1, in which x is behind the clock: a
\* frame came more than 50 ms after the one before, and the cap has acted
C26_Witness ==
  /\ gs.isRunning
  /\ idle = 0
  /\ player.x > 0
  /\ player.x < INITIAL_SPEED * (now - 1)

(***************************************************************************)
(* Sessions apart                                                          *)
(***************************************************************************)

\* the sessions but the one with this id, in order
others(all, id) == SelectSeq(all, LAMBDA session : session.id # id)

\* the generator and the segments of this session alone
own(trk, id) == [j \in {id} \cap DOMAIN trk |-> trk[j]]

\* the states of the random stream
RngStates == 0..(5 * RandScale - 1)

\* C27: a join, a leave and a position report change the runners of one
\* session and no generator or segment list; a tick checks the runners of
\* each session against that session's segments alone and extends each
\* session's list from that session's generator, list and runners alone
C27_SessionsIsolated ==
  [][/\ JoinStep =>
          /\ others(sessions', playerSessionMap'[srv'.call.socket])
               = others(sessions, playerSessionMap'[srv'.call.socket])
          /\ tracks' = tracks
     /\ LeaveStep =>
          /\ others(sessions', srv'.call.returned) = others(sessions, srv'.call.returned)
          /\ tracks' = tracks
     /\ ReportStep =>
          /\ others(sessions', playerSessionMap[srv'.call.socket])
               = others(sessions, playerSessionMap[srv'.call.socket])
          /\ tracks' = tracks
     /\ TickStep =>
          /\ Len(sessions') = Len(sessions)
          /\ \A i \in 1..Len(sessions) :
               LET id == sessions[i].id
               IN /\ sessions'[i] = update(<<sessions[i]>>, own(tracks, id))[1]
                  /\ id \in DOMAIN tracks'
                  /\ \E s \in RngStates :
                       LET t == generateTrackForSession(own(tracks, id), id, maxDist(sessions'[i]), s)
                       IN /\ tracks'[id].segments = t.segments
                          /\ tracks'[id].lastSegment = t.lastSegment
          /\ \A id \in DOMAIN tracks :
               sessionIndex(sessions, id) = 0 => (id \in DOMAIN tracks' /\ tracks'[id] = tracks[id])]_vars

\* with two sessions there, one with a generated track, a runner of the
\* other has reported its position and has moved
C27_Witness ==
  /\ Len(sessions) > 1
  /\ srv.call.op = "update_position"
  /\ \E i \in 1..Len(sessions) : \E k \in 1..Len(sessions[i].players) :
       /\ sessions[i].players[k].id = srv.call.socket
       /\ sessions[i].players[k].y = srv.call.data.y
       /\ sessions[i].players[k].y # 0
  /\ \E id \in DOMAIN tracks : Len(tracks[id].segments) > 0

(***************************************************************************)
(* One landing per step                                                    *)
(***************************************************************************)

\* the runner of the last call after the integration, had no platform been there
unlanded == updatePlayer(phys.pre, << >>, INITIAL_SPEED, getSpeedMultiplier, phys.hold, phys.tf, now).updatedPlayer

\* the platforms of the list passed that satisfy the landing condition
qualifying ==
  {i \in 1..Len(platforms) :
     /\ unlanded.vy >= 0
     /\ unlanded.x + Px(PLAYER_WIDTH) > platforms[i].x + Px(platformInset)
     /\ unlanded.x < platforms[i].x + platforms[i].width - Px(platformInset)
     /\ unlanded.y + Px(PLAYER_HEIGHT) >= platforms[i].y
     /\ phys.pre.y + Px(PLAYER_HEIGHT) <= platforms[i].y + Abs(unlanded.vy) * phys.tf + Px(landingSlack)}

\* C28: a call lands the runner on the first platform of the list that
\* satisfies the landing condition, and on no other; with none, it lands
\* the runner nowhere
C28_FirstQualifyingWins ==
  phys.steps > 0 =>
    IF qualifying = {}
      THEN phys.landed = 0 /\ phys.player = unlanded
      ELSE /\ phys.landed \in qualifying
           /\ \A i \in qualifying : phys.landed <= i
           /\ phys.player.isGrounded
           /\ phys.player.vy = 0
           /\ phys.player.y = platforms[phys.landed].y - Px(PLAYER_HEIGHT)

\* two platforms of different heights satisfied the landing condition, and
\* the runner is on the first
C28_Witness ==
  /\ phys.steps > 0
  /\ \E i, j \in qualifying : i < j /\ platforms[i].y # platforms[j].y /\ phys.landed = i

(***************************************************************************)
(* The jumps between two landings                                          *)
(***************************************************************************)

\* C29: jumpCount is in 0 .. MAX_JUMPS; a jumpDown that changes the runner
\* raises jumpCount, and jumpCount goes down only in a frame that ends on a
\* platform and in initGame: between two landings at most MAX_JUMPS
\* jumpDowns change the runner, however it left the ground
C29_JumpsBounded ==
  [][/\ player.jumpCount \in 0..MAX_JUMPS
     /\ player'.jumpCount \in 0..MAX_JUMPS
     /\ (JumpDownStep /\ player' # player) => player'.jumpCount > player.jumpCount
     /\ player'.jumpCount < player.jumpCount => (player'.isGrounded \/ runs' # runs)]_vars

\* the runner ran off a platform, and its one press, in the air, has taken
\* the jumps there are
C29_Witness ==
  /\ gs.isRunning
  /\ presses = 1
  /\ ~player.isGrounded
  /\ player.jumpCount = MAX_JUMPS

(***************************************************************************)
(* The score                                                               *)
(***************************************************************************)

\* C30: after every frame, the last of a run included, score is
\* player.x / 100 + bonusScore, with the bonuses of that frame in it
C30_ScoreIsDistancePlusBonus == gs.score = player.x + gs.bonusScore * ScoreScale

(***************************************************************************)
(* Pruning                                                                 *)
(***************************************************************************)

\* how far behind the camera a platform is kept
pruneDistance == 1000

\* the segment lies behind every runner of the list by more than the prune
\* distance
behindAll(seg, players) ==
  /\ Len(players) > 0
  /\ \A k \in 1..Len(players) : lt(seg.startX + seg.width, plus(players[k].x, -Px(pruneDistance)))

\* C31: every platform the client retains ends after cameraX - 1000, and
\* after a tick the segment list of a session holds no segment that lies
\* behind all of its runners by more than the prune distance
C31_FarBehindPruned ==
  /\ \A i \in 1..Len(platforms) :
       platforms[i].x + platforms[i].width > gs.cameraX - Px(pruneDistance)
  /\ srv.call.op = "tick" =>
       \A n \in 1..Len(sessions) :
         LET segments == getSegments(tracks, sessions[n].id)
         IN \A i \in 1..Len(segments) : ~behindAll(segments[i], sessions[n].players)

(***************************************************************************)
(* One runner for a socket                                                 *)
(***************************************************************************)

\* the places (session, position in its list) of the runners with this id
placesOf(socket) ==
  {<<i, k>> \in (1..Len(sessions)) \X (1..MAX_PLAYERS + MaxSockets) :
     k <= Len(sessions[i].players) /\ sessions[i].players[k].id = socket}

\* C32: every id has at most one runner in all the lists, and
\* playerSessionMap maps an id to a session exactly when the session is in
\* the registry and holds a runner with that id
C32_OneRunnerPerSocket ==
  \A socket \in Sockets :
    /\ Cardinality(placesOf(socket)) <= 1
    /\ \A i \in 1..Len(sessions) :
         playerSessionMap[socket] = sessions[i].id <=> (\E pl \in placesOf(socket) : pl[1] = i)
    /\ playerSessionMap[socket] # 0 => sessionIndex(sessions, playerSessionMap[socket]) # 0

(***************************************************************************)
(* The dash and its timer                                                  *)
(***************************************************************************)

\* a step that ends a dash within a run
DashEnds == player.isDashing /\ ~player'.isDashing /\ runs' = runs

\* C33: isDashing of a dash is cleared only when the dash has lasted its 150
\* ms: at the step that clears it no timer of a dash is still to come, also
\* when an earlier dash started before a restart
C33_DashLastsItsDuration == [][DashEnds => \A t \in timers' : t <= now]_vars

(***************************************************************************)
(* The track a joiner gets                                                 *)
(***************************************************************************)

\* this message reaches this socket, a member of this room
reaches(e, socket, room) ==
  \/ e.to = socket
  \/ e.to = 0 /\ e.room = room /\ e.except # socket

\* C34: a runner that joins a session is sent, in a track_update, every
\* segment the session has at or ahead of the spawn position x = 0 (a
\* track_update of a tick carries the segments generated in that tick only,
\* so the segments a session has at a join reach the joiner then or never)
C34_JoinerSentTrack ==
  [][JoinStep =>
       LET id == playerSessionMap'[joiner]
           segments == getSegments(tracks, id)
       IN \A i \in 1..Len(segments) :
            segments[i].startX + segments[i].width >= 0 =>
              \E k \in 1..Len(emitted') :
                /\ emitted'[k].event = "track_update"
                /\ reaches(emitted'[k], joiner, id)
                /\ \E n \in 1..Len(emitted'[k].segments) : emitted'[k].segments[n] = segments[i]]_vars

(***************************************************************************)
(* The persisted high score                                                *)
(***************************************************************************)

\* C35: the high score written by persistData never decreases: no step
\* lowers the stored value, and after a game over it is at least the final
\* score of the run, with the loop callback created once at the mount
C35_SavedNeverDecreases ==
  [][/\ saved' >= saved
     /\ (gs.isRunning /\ ~gs'.isRunning) => saved' >= gs'.score]_vars

(***************************************************************************)
(* The gaps of the server's track                                          *)
(***************************************************************************)

\* the gap between a segment and the one generated after it
gapBetween(a, b) == b.startX - (a.startX + a.width)

\* C36: every gap between consecutive segments of a session's list lies in
\* [MIN_GAP, MAX_GAP], at every difficulty the tick passes
C36_GapsWithinRange ==
  \A n \in 1..Len(sessions) :
    LET segments == getSegments(tracks, sessions[n].id)
    IN \A i \in 1..(Len(segments) - 1) :
         /\ gapBetween(segments[i], segments[i + 1]) >= Px(MIN_GAP)
         /\ gapBetween(segments[i], segments[i + 1]) <= Px(MAX_GAP)

(***************************************************************************)
(* Standing on a platform                                                  *)
(***************************************************************************)

\* the runner's box overlaps the platform's span inset by platformInset
overSpan(p, plat) ==
  /\ p.x + Px(PLAYER_WIDTH) > plat.x + Px(platformInset)
  /\ p.x < plat.x + plat.width - Px(platformInset)

\* C37: a runner that stands on a platform with vy = 0 and no jump, and
\* whose box still overlaps the platform's inset span after the call, is
\* grounded at y = platform.y - height with vy = 0 after the call, for every
\* timeFactor; it leaves the ground only past the platform's end
C37_GroundedStays ==
  (/\ phys.steps > 0
   /\ standsOn(phys.pre, startPlatform)
   /\ phys.pre.vy = 0
   /\ phys.pre.jumpHoldTimer = 0)
    => /\ overSpan(phys.player, startPlatform) =>
            /\ phys.player.isGrounded
            /\ phys.player.y = startPlatform.y - Px(PLAYER_HEIGHT)
            /\ phys.player.vy = 0
       /\ ~phys.player.isGrounded => ~overSpan(phys.player, startPlatform)

\* a runner standing on the start platform has been advanced by the largest
\* timeFactor and stands on it still, further on
C37_Witness ==
  /\ phys.steps > 1
  /\ standsOn(phys.pre, startPlatform)
  /\ phys.pre.vy = 0
  /\ phys.tf = Ms(maxDeltaTime)
  /\ standsOn(phys.player, startPlatform)
  /\ phys.player.x > phys.pre.x

\* a runner standing at the end of the start platform has been advanced
\* past it and is in the air
C37_WitnessLeaves ==
  /\ phys.steps > 1
  /\ standsOn(phys.pre, startPlatform)
  /\ ~phys.player.isGrounded

(***************************************************************************)
(* The distance of a runner                                                *)
(***************************************************************************)

\* a >= b as JavaScript compares: false when either side is NaN
geq(a, b) == a # NaN /\ b # NaN /\ a >= b

\* C38: no position report lowers the distance of a runner, and none lowers
\* the distance of a session's leader, from which the tick takes its target
C38_DistanceNeverDecreases ==
  [][ReportStep =>
       \A i \in 1..Len(sessions) :
         /\ \A k \in 1..Len(sessions[i].players) :
              sessions[i].players[k].distance # NaN =>
                geq(sessions'[i].players[k].distance, sessions[i].players[k].distance)
         /\ maxDist(sessions'[i]) >= maxDist(sessions[i])]_vars

(***************************************************************************)
(* The local player in the players map                                     *)
(***************************************************************************)

\* the local player's entry with the username it connected with
selfIn(players) == \E p \in players : p.id = net.selfId /\ p.username = net.name

\* C39: once connected the local player's entry stays in the players map,
\* and every session snapshot emitted holds it with its original username
C39_SelfNeverPruned ==
  net.selfId # "" =>
    /\ selfIn(net.players)
    /\ net.session.emitted => selfIn(net.session.players)

=============================================================================
